---------------------------- MODULE Spec2Model ----------------------------
(***************************************************************************)
(* A model of cipher-sleuth: the recursive, depth-bounded orchestrator     *)
(* (main.go), the local decode engine (solver.go), the poly-alphabetic     *)
(* engine (solver_poly.go), the RSA attack engine (solver_rsa.go), the     *)
(* statistics engine (stats.go) and the knowledge base (config.go).        *)
(*                                                                         *)
(* Byte buffers and Go strings are sequences of integers in 0..255.        *)
(* Floating-point frequency scores are kept in tenths (12.7 is 127), which *)
(* is exact for every weight of englishFreq and for the penalty.           *)
(***************************************************************************)
EXTENDS Integers, Sequences, FiniteSets, TLC

VARIABLES
    \* ---- orchestrate (main.go) ----
    data,       \* the current layer's buffer
    online,     \* the --online flag handed to orchestrate
    depth,      \* the current layer's depth
    pc,         \* position inside orchestrate
    ident,      \* identifiedType of the current layer
    stack,      \* the calls of orchestrate waiting for their recursive call
    log,        \* what the run printed / invoked so far, in order
    outcome,    \* how the run ended
    \* ---- a single call of one solver function ----
    fn,         \* the function that was called ("" before the call)
    arg,        \* its input buffer
    key,        \* the key byte of the caller (XOR)
    res         \* what it returned

ovars == <<data, online, depth, pc, ident, stack, log, outcome>>
fvars == <<fn, arg, key, res>>
vars  == <<data, online, depth, pc, ident, stack, log, outcome, fn, arg, key, res>>

-----------------------------------------------------------------------------
(* Text helpers *)

\* The printable ASCII characters, in code order from 32 (space) to 126 (~);
\* DQ stands for the double quote, BS for the backslash, BT for the backtick.
Ascii ==
    << " ", "!", "DQ", "#", "$", "%", "&", "'", "(", ")", "*", "+", ",", "-", ".", "/",
       "0", "1", "2", "3", "4", "5", "6", "7", "8", "9", ":", ";", "<", "=", ">", "?",
       "@", "A", "B", "C", "D", "E", "F", "G", "H", "I", "J", "K", "L", "M", "N", "O",
       "P", "Q", "R", "S", "T", "U", "V", "W", "X", "Y", "Z", "[", "BS", "]", "^", "_",
       "BT", "a", "b", "c", "d", "e", "f", "g", "h", "i", "j", "k", "l", "m", "n", "o",
       "p", "q", "r", "s", "t", "u", "v", "w", "x", "y", "z", "{", "|", "}", "~" >>

Ord(c) == 31 + (CHOOSE i \in 1..Len(Ascii) : Ascii[i] = c)

\* The bytes of a text written as a tuple of one-character strings.
S(t) == [i \in 1..Len(t) |-> Ord(t[i])]

Rep(b, n) == [i \in 1..n |-> b]

\* strings.Contains on byte sequences
Contains(s, sub) ==
    \E i \in 0..(Len(s) - Len(sub)) :
        \A j \in 1..Len(sub) : s[i + j] = sub[j]

RECURSIVE Strings(_, _)
\* Every sequence over alphabet A of length n.
Strings(A, n) ==
    IF n = 0 THEN {<<>>}
    ELSE {<<a>> \o s : a \in A, s \in Strings(A, n - 1)}

StringsUpTo(A, n) == UNION {Strings(A, k) : k \in 0..n}

-----------------------------------------------------------------------------
(* The Go library decoders TryDecode calls, by what they do *)

DecodeOk(bytes) == [ok |-> TRUE, out |-> bytes]
DecodeErr == [ok |-> FALSE, out |-> <<>>]

\* Both base64 and base32 decoders skip '\r' and '\n' anywhere in the input.
StripNewlines(s) == SelectSeq(s, LAMBDA b : b # 10 /\ b # 13)

\* base64.StdEncoding's alphabet: A-Z a-z 0-9 + / ; -1 for any other byte.
B64Val(c) ==
    IF c >= 65 /\ c <= 90 THEN c - 65
    ELSE IF c >= 97 /\ c <= 122 THEN c - 71
    ELSE IF c >= 48 /\ c <= 57 THEN c + 4
    ELSE IF c = 43 THEN 62
    ELSE IF c = 47 THEN 63
    ELSE -1

RECURSIVE B64Quanta(_)
\* The quanta of four characters, the last possibly padded ("xx==", "xxx=");
\* padding is required, and the decoder is not strict about the unused bits.
B64Quanta(t) ==
    IF t = <<>> THEN DecodeOk(<<>>)
    ELSE IF Len(t) < 4 THEN DecodeErr
    ELSE
        LET v1 == B64Val(t[1])
            v2 == B64Val(t[2])
            v3 == B64Val(t[3])
            v4 == B64Val(t[4])
        IN  IF v1 >= 0 /\ v2 >= 0 /\ v3 >= 0 /\ v4 >= 0
            THEN LET val  == v1 * 262144 + v2 * 4096 + v3 * 64 + v4
                     rest == B64Quanta(SubSeq(t, 5, Len(t)))
                 IN  IF rest.ok
                     THEN DecodeOk(<<val \div 65536, (val \div 256) % 256, val % 256>>
                                   \o rest.out)
                     ELSE DecodeErr
            ELSE IF Len(t) = 4 /\ v1 >= 0 /\ v2 >= 0 /\ t[3] = 61 /\ t[4] = 61
            THEN DecodeOk(<<(v1 * 262144 + v2 * 4096) \div 65536>>)
            ELSE IF Len(t) = 4 /\ v1 >= 0 /\ v2 >= 0 /\ v3 >= 0 /\ t[4] = 61
            THEN LET val == v1 * 262144 + v2 * 4096 + v3 * 64
                 IN  DecodeOk(<<val \div 65536, (val \div 256) % 256>>)
            ELSE DecodeErr

\* base64.StdEncoding.DecodeString
Base64Decode(s) == B64Quanta(StripNewlines(s))

HexVal(c) ==
    IF c >= 48 /\ c <= 57 THEN c - 48
    ELSE IF c >= 97 /\ c <= 102 THEN c - 87
    ELSE IF c >= 65 /\ c <= 70 THEN c - 55
    ELSE -1

\* hex.DecodeString: an even number of hex digits, either case.
HexDecode(s) ==
    IF Len(s) % 2 = 0 /\ \A i \in 1..Len(s) : HexVal(s[i]) >= 0
    THEN DecodeOk([i \in 1..(Len(s) \div 2) |->
                      HexVal(s[2 * i - 1]) * 16 + HexVal(s[2 * i])])
    ELSE DecodeErr

\* One step of url.QueryUnescape at st.pos: "%XX" becomes the byte XX, '+'
\* becomes a space, a '%' not followed by two hex digits is an error.
UnescapeStep(s, st) ==
    LET i == st.pos
    IN  IF s[i] = 37
        THEN IF i + 2 > Len(s) \/ HexVal(s[i + 1]) < 0 \/ HexVal(s[i + 2]) < 0
             THEN [pos |-> Len(s) + 1, out |-> <<>>, ok |-> FALSE]
             ELSE [pos |-> i + 3,
                   out |-> Append(st.out, HexVal(s[i + 1]) * 16 + HexVal(s[i + 2])),
                   ok  |-> TRUE]
        ELSE [pos |-> i + 1,
              out |-> Append(st.out, IF s[i] = 43 THEN 32 ELSE s[i]),
              ok  |-> TRUE]

RECURSIVE UnescapeRun(_, _, _)
\* At most n steps from st, stopping at the end of s or at an error.
UnescapeRun(s, n, st) ==
    IF st.pos > Len(s) \/ n = 0 THEN st
    ELSE IF n = 1 THEN UnescapeStep(s, st)
    ELSE LET left == UnescapeRun(s, n \div 2, st)
         IN  IF left.pos > Len(s) THEN left
             ELSE UnescapeRun(s, n - (n \div 2), left)

\* url.QueryUnescape
QueryUnescape(s) ==
    LET end == UnescapeRun(s, Len(s), [pos |-> 1, out |-> <<>>, ok |-> TRUE])
    IN  IF end.ok THEN DecodeOk(end.out) ELSE DecodeErr

\* base32.StdEncoding's alphabet: A-Z 2-7 ; -1 for any other byte.
B32Val(c) ==
    IF c >= 65 /\ c <= 90 THEN c - 65
    ELSE IF c >= 50 /\ c <= 55 THEN c - 24
    ELSE -1

\* The 5-bit groups d (dlen of them read, the rest 0) packed into bytes.
B32Pack(d, dlen) ==
    LET b0 == (d[1] * 8 + d[2] \div 4) % 256
        b1 == ((d[2] % 4) * 64 + d[3] * 2 + d[4] \div 16) % 256
        b2 == ((d[4] % 16) * 16 + d[5] \div 2) % 256
        b3 == ((d[5] % 2) * 128 + d[6] * 4 + d[7] \div 8) % 256
        b4 == ((d[7] % 8) * 32 + d[8]) % 256
    IN  IF dlen = 8 THEN <<b0, b1, b2, b3, b4>>
        ELSE IF dlen = 7 THEN <<b0, b1, b2, b3>>
        ELSE IF dlen = 5 THEN <<b0, b1, b2>>
        ELSE IF dlen = 4 THEN <<b0, b1>>
        ELSE <<b0>>

\* The number of characters of the quantum starting t before its padding:
\* 8 when it has none.
B32DataLen(t) ==
    IF \E j \in 1..8 : j <= Len(t) /\ t[j] = 61
    THEN (CHOOSE j \in 1..8 : j <= Len(t) /\ t[j] = 61
                               /\ \A k \in 1..(j - 1) : t[k] # 61) - 1
    ELSE 8

RECURSIVE B32Quanta(_)
\* Quanta of eight characters; a '=' from the third character on, with fewer
\* than eight characters after it, ends the input: the quantum must be
\* filled up with '=', and 1, 3 or 6 data characters are no valid length.
B32Quanta(t) ==
    IF t = <<>> THEN DecodeOk(<<>>)
    ELSE
        LET j == B32DataLen(t)      \* characters before the first '='
            after == Len(t) - j - 1 \* characters after that '='
        IN  IF j < 8 /\ j >= 2 /\ after < 8
            THEN \* padding
                 IF after + j < 7 THEN DecodeErr
                 ELSE IF \E k \in 1..(7 - j) : t[j + 1 + k] # 61 THEN DecodeErr
                 ELSE IF j = 3 \/ j = 6 THEN DecodeErr
                 ELSE IF \E k \in 1..j : B32Val(t[k]) < 0 THEN DecodeErr
                 ELSE DecodeOk(B32Pack([k \in 1..8 |-> IF k <= j THEN B32Val(t[k]) ELSE 0], j))
            ELSE IF Len(t) < 8 THEN DecodeErr
            ELSE IF \E k \in 1..8 : B32Val(t[k]) < 0 THEN DecodeErr
            ELSE LET rest == B32Quanta(SubSeq(t, 9, Len(t)))
                 IN  IF rest.ok
                     THEN DecodeOk(B32Pack([k \in 1..8 |-> B32Val(t[k])], 8) \o rest.out)
                     ELSE DecodeErr

\* base32.StdEncoding.DecodeString
Base32Decode(s) == B32Quanta(StripNewlines(s))

-----------------------------------------------------------------------------
(* Go strings as runes: `for _, r := range input` and strings.ToLower *)

IsCont(s, i) == i <= Len(s) /\ s[i] >= 128 /\ s[i] <= 191

\* The width in bytes of the UTF-8 encoding starting at s[i]; 0 when the
\* bytes there are no valid encoding (range then yields U+FFFD and moves on
\* by one byte).
RuneLen(s, i) ==
    LET b == s[i]
        second(lo, hi) == i + 1 <= Len(s) /\ s[i + 1] >= lo /\ s[i + 1] <= hi
    IN  IF b < 128 THEN 1
        ELSE IF b >= 194 /\ b <= 223
        THEN IF second(128, 191) THEN 2 ELSE 0
        ELSE IF b >= 224 /\ b <= 239
        THEN IF second(IF b = 224 THEN 160 ELSE 128, IF b = 237 THEN 159 ELSE 191)
                /\ IsCont(s, i + 2)
             THEN 3 ELSE 0
        ELSE IF b >= 240 /\ b <= 244
        THEN IF second(IF b = 240 THEN 144 ELSE 128, IF b = 244 THEN 143 ELSE 191)
                /\ IsCont(s, i + 2) /\ IsCont(s, i + 3)
             THEN 4 ELSE 0
        ELSE 0

\* utf8.RuneError as WriteRune writes it
RuneError == <<239, 191, 189>>

\* One rune of strings.Map(unicode.ToLower, s), at st.pos. The only runes
\* outside ASCII whose lower case is an ASCII letter are U+0130 (to 'i') and
\* U+212A (to 'k'); every other rune outside ASCII stays outside ASCII and is
\* kept as it is here.
LowerStep(s, st) ==
    LET i == st.pos
        w == RuneLen(s, i)
    IN  IF w = 0 THEN [pos |-> i + 1, out |-> st.out \o RuneError]
        ELSE IF w = 1
        THEN [pos |-> i + 1,
              out |-> Append(st.out, IF s[i] >= 65 /\ s[i] <= 90 THEN s[i] + 32 ELSE s[i])]
        ELSE IF w = 2 /\ s[i] = 196 /\ s[i + 1] = 176
        THEN [pos |-> i + 2, out |-> Append(st.out, 105)]
        ELSE IF w = 3 /\ s[i] = 226 /\ s[i + 1] = 132 /\ s[i + 2] = 170
        THEN [pos |-> i + 3, out |-> Append(st.out, 107)]
        ELSE [pos |-> i + w, out |-> st.out \o SubSeq(s, i, i + w - 1)]

RECURSIVE LowerRun(_, _, _)
\* At most n runes from st, stopping at the end of s.
LowerRun(s, n, st) ==
    IF st.pos > Len(s) \/ n = 0 THEN st
    ELSE IF n = 1 THEN LowerStep(s, st)
    ELSE LET left == LowerRun(s, n \div 2, st)
         IN  IF left.pos > Len(s) THEN left
             ELSE LowerRun(s, n - (n \div 2), left)

\* strings.ToLower
ToLower(s) == LowerRun(s, Len(s), [pos |-> 1, out |-> <<>>]).out

-----------------------------------------------------------------------------
(* LocalDecodeEngine: solver.go *)

SolveFail == [Success |-> FALSE, Algorithm |-> <<>>, DecodedData |-> <<>>]

\* src/solver.go:121
isPrintable(bytes) ==
    \A i \in 1..Len(bytes) :
        /\ ~(bytes[i] < 32 /\ bytes[i] # 10 /\ bytes[i] # 13 /\ bytes[i] # 9)
        /\ ~(bytes[i] > 126)

\* One rune of the rotation loops of Rot13 and BruteForceCaesar.
RotRune(b, shift) ==
    IF b >= 97 /\ b <= 122 THEN 97 + ((b - 97 + shift) % 26)
    ELSE IF b >= 65 /\ b <= 90 THEN 65 + ((b - 65 + shift) % 26)
    ELSE b

\* One iteration of `for _, r := range input { ... result.WriteRune(...) }`.
RotateStep(s, shift, st) ==
    LET i == st.pos
        w == RuneLen(s, i)
    IN  IF w = 0 THEN [pos |-> i + 1, out |-> st.out \o RuneError]
        ELSE IF w = 1 THEN [pos |-> i + 1, out |-> Append(st.out, RotRune(s[i], shift))]
        ELSE [pos |-> i + w, out |-> st.out \o SubSeq(s, i, i + w - 1)]

RECURSIVE RotateRun(_, _, _, _)
\* At most n iterations from st, stopping at the end of s.
RotateRun(s, shift, n, st) ==
    IF st.pos > Len(s) \/ n = 0 THEN st
    ELSE IF n = 1 THEN RotateStep(s, shift, st)
    ELSE LET left == RotateRun(s, shift, n \div 2, st)
         IN  IF left.pos > Len(s) THEN left
             ELSE RotateRun(s, shift, n - (n \div 2), left)

\* The whole loop over the runes of s.
Rotate(s, shift) == RotateRun(s, shift, Len(s), [pos |-> 1, out |-> <<>>]).out

\* src/solver.go:76
Rot13(input) ==
    [Success |-> TRUE, Algorithm |-> <<"Rot13">>, DecodedData |-> Rotate(input, 13)]

CaesarTarget == S(<<"p", "i", "c", "o", "c", "t", "f">>)

CaesarCandidate(input, shift) == Rotate(input, shift)

RECURSIVE CaesarLoop(_, _)
\* The loop `for shift := 1; shift < 26; shift++` from the given shift on:
\* it returns at the first candidate that contains the target.
CaesarLoop(input, shift) ==
    IF shift >= 26 THEN SolveFail
    ELSE LET candidate == CaesarCandidate(input, shift)
         IN  IF Contains(ToLower(candidate), CaesarTarget)
             THEN [Success |-> TRUE,
                   Algorithm |-> <<"Caesar Cipher (Shift %d)", shift>>,
                   DecodedData |-> candidate]
             ELSE CaesarLoop(input, shift + 1)

\* BruteForceCaesar with the loop started one shift early.
BruteForceCaesarFromZero(input) == CaesarLoop(input, 0)

\* src/solver.go:92
BruteForceCaesar(input) == CaesarLoop(input, 1)

Pico == S(<<"p", "i", "c", "o">>)

\* TryDecode with the URL attempt moved in front of the Base64 attempt.
TryDecodeUrlFirst(input) ==
    LET b64 == Base64Decode(input)
        hex == HexDecode(input)
        url == QueryUnescape(input)
        b32 == Base32Decode(input)
        rot13 == Rot13(input)
        caesar == BruteForceCaesar(input)
    IN  IF url.ok /\ url.out # input
        THEN [Success |-> TRUE, Algorithm |-> <<"URL Encoding">>, DecodedData |-> url.out]
        ELSE IF b64.ok /\ isPrintable(b64.out)
        THEN [Success |-> TRUE, Algorithm |-> <<"Base64">>, DecodedData |-> b64.out]
        ELSE IF hex.ok /\ isPrintable(hex.out)
        THEN [Success |-> TRUE, Algorithm |-> <<"Hex">>, DecodedData |-> hex.out]
        ELSE IF b32.ok /\ isPrintable(b32.out)
        THEN [Success |-> TRUE, Algorithm |-> <<"Base32">>, DecodedData |-> b32.out]
        ELSE IF Contains(ToLower(rot13.DecodedData), Pico)
        THEN rot13
        ELSE IF caesar.Success
        THEN caesar
        ELSE SolveFail

\* src/solver.go:28
TryDecode(input) ==
    LET b64 == Base64Decode(input)
        hex == HexDecode(input)
        url == QueryUnescape(input)
        b32 == Base32Decode(input)
        rot13 == Rot13(input)
        caesar == BruteForceCaesar(input)
    IN  IF b64.ok /\ isPrintable(b64.out)
        THEN [Success |-> TRUE, Algorithm |-> <<"Base64">>, DecodedData |-> b64.out]
        ELSE IF hex.ok /\ isPrintable(hex.out)
        THEN [Success |-> TRUE, Algorithm |-> <<"Hex">>, DecodedData |-> hex.out]
        ELSE IF url.ok /\ url.out # input
        THEN [Success |-> TRUE, Algorithm |-> <<"URL Encoding">>, DecodedData |-> url.out]
        ELSE IF b32.ok /\ isPrintable(b32.out)
        THEN [Success |-> TRUE, Algorithm |-> <<"Base32">>, DecodedData |-> b32.out]
        ELSE IF Contains(ToLower(rot13.DecodedData), Pico)
        THEN rot13
        ELSE IF caesar.Success
        THEN caesar
        ELSE SolveFail

-----------------------------------------------------------------------------
(* PolyAlphabeticEngine: solver_poly.go *)

Byte == 0..255

RECURSIVE BitXor(_, _, _)
\* The exclusive or of the low n bits of a and b.
BitXor(a, b, n) ==
    IF n = 0 THEN 0
    ELSE ((a + b) % 2) + 2 * BitXor(a \div 2, b \div 2, n - 1)

XorTable == [a \in Byte |-> [b \in Byte |-> BitXor(a, b, 8)]]

\* b ^ key on bytes
Xor(b, k) == XorTable[b][k]

\* decoded[i] = input[i] ^ key
XorBytes(input, k) == [i \in 1..Len(input) |-> Xor(input[i], k)]

\* src/solver_poly.go:10, in tenths: e t a o i n s h r d l u and the space
englishFreq ==
    [b \in {101, 116, 97, 111, 105, 110, 115, 104, 114, 100, 108, 117, 32} |->
        CASE b = 101 -> 127 [] b = 116 -> 91 [] b = 97 -> 82 [] b = 111 -> 75
          [] b = 105 -> 70  [] b = 110 -> 67 [] b = 115 -> 63 [] b = 104 -> 61
          [] b = 114 -> 60  [] b = 100 -> 43 [] b = 108 -> 40 [] b = 117 -> 28
          [] b = 32 -> 150]

\* byte(unicode.ToLower(rune(dec))): A-Z go to a-z, and the upper case letters
\* of Latin-1 (0xC0..0xDE but 0xD7) to their lower case, 32 further on.
ByteToLower(dec) ==
    IF dec >= 65 /\ dec <= 90 THEN dec + 32
    ELSE IF dec >= 192 /\ dec <= 222 /\ dec # 215 THEN dec + 32
    ELSE dec

\* What one decoded byte adds to the score, in tenths.
ByteScore(dec) ==
    IF ByteToLower(dec) \in DOMAIN englishFreq THEN englishFreq[ByteToLower(dec)]
    ELSE IF (dec < 32 \/ dec > 126) /\ dec # 10 /\ dec # 13 /\ dec # 9 THEN -100
    ELSE 0

ScoreTable == [dec \in Byte |-> ByteScore(dec)]

RECURSIVE SumScores(_, _, _)
\* The scores of decoded[lo..hi] added up.
SumScores(decoded, lo, hi) ==
    IF lo > hi THEN 0
    ELSE IF lo = hi THEN ScoreTable[decoded[lo]]
    ELSE LET mid == (lo + hi) \div 2
         IN  SumScores(decoded, lo, mid) + SumScores(decoded, mid + 1, hi)

\* The score the loop body computes for one key, in tenths.
XorScore(input, k) == SumScores(XorBytes(input, k), 1, Len(input))

PicoCTFBrace == S(<<"p", "i", "c", "o", "C", "T", "F", "{">>)
HTBBrace == S(<<"H", "T", "B", "{">>)

\* strings.Contains(s, "picoCTF{") || strings.Contains(s, "HTB{")
HasFlag(s) == Contains(s, PicoCTFBrace) \/ Contains(s, HTBBrace)

\* The sentinel 1000.0 of the instant win, in tenths.
InstantWin == 10000

\* The state of the loop `for k := 0; k < 256; k++`: whether it has returned,
\* and bestRes, bestKey, bestScore (or the triple it returned).
XorStart == [returned |-> FALSE, text |-> <<>>, key |-> 0, score |-> 0]

\* One pass through the loop body with key k.
XorStep(input, k, st) ==
    IF st.returned THEN st
    ELSE LET decoded == XorBytes(input, k)
             score == SumScores(decoded, 1, Len(decoded))
         IN  IF HasFlag(decoded)
             THEN [returned |-> TRUE, text |-> decoded, key |-> k, score |-> InstantWin]
             ELSE IF score > st.score
             THEN [returned |-> FALSE, text |-> decoded, key |-> k, score |-> score]
             ELSE st

\* The loop body without the instant-win override.
XorStepNoOverride(input, k, st) ==
    LET decoded == XorBytes(input, k)
        score == SumScores(decoded, 1, Len(decoded))
    IN  IF score > st.score
        THEN [returned |-> FALSE, text |-> decoded, key |-> k, score |-> score]
        ELSE st

RECURSIVE XorSweep(_, _, _, _)
\* The passes for the keys lo..hi-1, in increasing order, from loop state st.
XorSweep(input, lo, hi, st) ==
    IF hi - lo = 1 THEN XorStep(input, lo, st)
    ELSE LET mid == (lo + hi) \div 2
             left == XorSweep(input, lo, mid, st)
         IN  IF left.returned THEN left ELSE XorSweep(input, mid, hi, left)

RECURSIVE XorSweepNoOverride(_, _, _, _)
XorSweepNoOverride(input, lo, hi, st) ==
    IF hi - lo = 1 THEN XorStepNoOverride(input, lo, st)
    ELSE LET mid == (lo + hi) \div 2
             left == XorSweepNoOverride(input, lo, mid, st)
         IN  IF left.returned THEN left ELSE XorSweepNoOverride(input, mid, hi, left)

XorReturn(st) == [text |-> st.text, key |-> st.key, score |-> st.score]

\* SolveSingleByteXOR without the instant-win override.
SolveSingleByteXORNoOverride(input) == XorReturn(XorSweepNoOverride(input, 0, 256, XorStart))

\* src/solver_poly.go:17
SolveSingleByteXOR(input) == XorReturn(XorSweep(input, 0, 256, XorStart))

\* A "%XX" escape somewhere in s.
HasPercentEscape(s) ==
    \E i \in 1..(Len(s) - 2) :
        s[i] = 37 /\ HexVal(s[i + 1]) >= 0 /\ HexVal(s[i + 2]) >= 0

-----------------------------------------------------------------------------
(* StatisticsEngine: stats.go.  orchestrate only compares the entropy with  *)
(* 3.0, 6.0 and 7.5; the comparisons are made exactly, on natural numbers   *)
(* of any size:  H > t/2  iff  n^(2n) > (2^t)^n * PRODUCT c_i^(2 c_i),      *)
(* where n is len(data) and c_i the count of the byte at position i.        *)

\* A natural number is the sequence of its digits in this base, lowest first.
Limb == 10000

RECURSIVE BigMulRange(_, _, _, _, _)
\* The digits lo..hi of a times m, from st = [out, carry].
BigMulRange(a, m, lo, hi, st) ==
    IF lo > hi THEN st
    ELSE IF lo = hi
    THEN LET v == a[lo] * m + st.carry
         IN  [out |-> Append(st.out, v % Limb), carry |-> v \div Limb]
    ELSE LET mid  == (lo + hi) \div 2
             left == BigMulRange(a, m, lo, mid, st)
         IN  IF left.carry < 0 THEN left ELSE BigMulRange(a, m, mid + 1, hi, left)

\* a * m, for 1 <= m < 200000
BigMul(a, m) ==
    LET end == BigMulRange(a, m, 1, Len(a), [out |-> <<>>, carry |-> 0])
    IN  IF end.carry = 0 THEN end.out
        ELSE IF end.carry < Limb THEN Append(end.out, end.carry)
        ELSE end.out \o <<end.carry % Limb, end.carry \div Limb>>

RECURSIVE BigProduct(_, _, _, _)
\* acc * f[lo] * ... * f[hi]
BigProduct(acc, f, lo, hi) ==
    IF lo > hi THEN acc
    ELSE IF lo = hi THEN BigMul(acc, f[lo])
    ELSE LET mid  == (lo + hi) \div 2
             left == BigProduct(acc, f, lo, mid)
         IN  IF Len(left) = 0 THEN left ELSE BigProduct(left, f, mid + 1, hi)

\* -1, 0, 1 as a < b, a = b, a > b
BigCmp(a, b) ==
    IF Len(a) # Len(b) THEN (IF Len(a) < Len(b) THEN -1 ELSE 1)
    ELSE LET diff == {i \in 1..Len(a) : a[i] # b[i]}
         IN  IF diff = {} THEN 0
             ELSE LET top == CHOOSE i \in diff : \A j \in diff : j <= i
                  IN  IF a[top] < b[top] THEN -1 ELSE 1

\* frequencies[b] of CalculateShannonEntropy
Frequency(bytes, b) == Cardinality({i \in 1..Len(bytes) : bytes[i] = b})

RECURSIVE TwoTo(_)
TwoTo(t) == IF t = 0 THEN 1 ELSE 2 * TwoTo(t - 1)

\* CalculateShannonEntropy(bytes) compared with halfBits / 2: -1, 0 or 1.
\* The entropy of the empty buffer is 0.
EntropyCmp(bytes, halfBits) ==
    IF Len(bytes) = 0 THEN -1
    ELSE LET n      == Len(bytes)
             freq   == [b \in {bytes[i] : i \in 1..n} |-> Frequency(bytes, b)]
             counts == [i \in 1..n |-> freq[bytes[i]]]
             size   == [i \in 1..n |-> n]
             lhs    == BigProduct(BigProduct(<<1>>, size, 1, n), size, 1, n)
             rhs    == BigProduct(BigProduct(
                           BigProduct(<<1>>, [i \in 1..n |-> TwoTo(halfBits)], 1, n),
                           counts, 1, n), counts, 1, n)
         IN  BigCmp(lhs, rhs)

\* entropy > 3.0, entropy < 6.0, entropy < 7.5
EntropyAbove3(bytes) == EntropyCmp(bytes, 6) = 1
EntropyBelow6(bytes) == EntropyCmp(bytes, 12) = -1
EntropyBelow75(bytes) == EntropyCmp(bytes, 15) = -1

-----------------------------------------------------------------------------
(* IdentificationEngine: config.go and the identification part of          *)
(* orchestrate.  Go ranges over a map in an order that is not specified, so *)
(* when several signatures match, any of them can be the one reported.      *)

\* identifiedType: "Unknown", "File (name)", "Hash (name)",
\* "Encoded Text (name?)" or "RSA Challenge Data", as class and name.
Type(class, name) == [class |-> class, name |-> name]
Unknown == Type("Unknown", "")
RSAChallengeData == Type("RSA Challenge Data", "")
NoType == Type("", "")

\* Config.MagicBytes
MagicBytes ==
    ("PNG" :> <<137, 80, 78, 71>>)
        @@ ("JPG" :> <<255, 216, 255>>)
        @@ ("ZIP" :> <<80, 75, 3, 4>>)
        @@ ("7z" :> <<55, 122, 188, 175>>)
        @@ ("TAR" :> <<117, 115, 116, 97, 114>>)
        @@ ("ELF" :> <<127, 69, 76, 70>>)
        @@ ("LUKS" :> <<76, 85, 75, 83>>)
        @@ ("PGP Message" :> <<133>>)

\* len(data) >= len(signature) && bytes.Equal(data[:len(signature)], signature)
HasPrefix(bytes, signature) ==
    /\ Len(bytes) >= Len(signature)
    /\ \A i \in 1..Len(signature) : bytes[i] = signature[i]

IsDigit(c) == c >= 48 /\ c <= 57
IsUpper(c) == c >= 65 /\ c <= 90
IsLower(c) == c >= 97 /\ c <= 122
\* [a-fA-F0-9]
IsHexDigit(c) == HexVal(c) >= 0

\* ^[a-fA-F0-9]{n}$
HexOfLength(s, n) == Len(s) = n /\ \A i \in 1..Len(s) : IsHexDigit(s[i])

RECURSIVE RuneCountRun(_, _, _)
\* The position after at most n runes of s from position pos; a byte that
\* starts no valid encoding counts as one rune, as the regexp engine reads it.
RuneCountRun(s, n, pos) ==
    IF pos > Len(s) \/ n = 0 THEN pos
    ELSE IF n = 1 THEN pos + (IF RuneLen(s, pos) = 0 THEN 1 ELSE RuneLen(s, pos))
    ELSE LET left == RuneCountRun(s, n \div 2, pos)
         IN  IF left > Len(s) THEN left ELSE RuneCountRun(s, n - (n \div 2), left)

\* ^\$2[ayb]\$.{56}$ : the dot matches any rune but the newline.
MatchesBcrypt(s) ==
    /\ Len(s) >= 60
    /\ s[1] = 36 /\ s[2] = 50 /\ s[3] \in {97, 121, 98} /\ s[4] = 36
    /\ \A i \in 5..Len(s) : s[i] # 10
    /\ RuneCountRun(s, 56, 5) = Len(s) + 1
    /\ RuneCountRun(s, 55, 5) <= Len(s)

Argon2Prefix == S(<<"$", "a", "r", "g", "o", "n", "2">>)

\* ^\$argon2.*\$.+$
MatchesArgon2(s) ==
    /\ HasPrefix(s, Argon2Prefix)
    /\ \A i \in 8..Len(s) : s[i] # 10
    /\ \E i \in 8..(Len(s) - 1) : s[i] = 36

\* Config.HashPatterns
HashPatterns(s) ==
    ("MD5" :> HexOfLength(s, 32))
        @@ ("SHA1" :> HexOfLength(s, 40))
        @@ ("SHA256" :> HexOfLength(s, 64))
        @@ ("SHA512" :> HexOfLength(s, 128))
        @@ ("RIPEMD-160" :> HexOfLength(s, 40))
        @@ ("NTLM" :> HexOfLength(s, 32))
        @@ ("Bcrypt" :> MatchesBcrypt(s))
        @@ ("Argon2" :> MatchesArgon2(s))

\* The number of '=' that end s
TrailingEquals(s) ==
    Cardinality({k \in 1..Len(s) : \A i \in (Len(s) - k + 1)..Len(s) : s[i] = 61})

\* ^[class]*={0,maxPad}$
PaddedOver(s, class, maxPad) ==
    \E pad \in 0..maxPad :
        /\ pad <= TrailingEquals(s)
        /\ \A i \in 1..(Len(s) - pad) : s[i] \in class

IsBase64Char(c) == IsLower(c) \/ IsUpper(c) \/ IsDigit(c) \/ c = 43 \/ c = 47
IsBase32Char(c) == IsUpper(c) \/ (c >= 50 /\ c <= 55)
\* [1-9A-HJ-NP-Za-km-z]
IsBase58Char(c) ==
    \/ (c >= 49 /\ c <= 57)
    \/ (IsUpper(c) /\ c # 73 /\ c # 79)
    \/ (IsLower(c) /\ c # 108)

\* EncodingChecks
EncodingChecks(s) ==
    ("Base64" :> PaddedOver(s, {c \in Byte : IsBase64Char(c)}, 2))
        @@ ("Base32" :> PaddedOver(s, {c \in Byte : IsBase32Char(c)}, 6))
        @@ ("Base58" :> (Len(s) >= 1 /\ \A i \in 1..Len(s) : IsBase58Char(s[i])))
        @@ ("Hex" :> (Len(s) >= 1 /\ \A i \in 1..Len(s) : IsHexDigit(s[i])))
        @@ ("URL" :> HasPercentEscape(s))

\* The names of a table whose signature matches
Matching(table) == {name \in DOMAIN table : table[name]}

\* The values identifiedType can have before the RSA check (main.go 74-103):
\* the first table, in the order magic bytes, hashes, encodings, with a match
\* decides the class, and any of its matching names can be the one found.
Identify(bytes) ==
    LET files  == Matching([name \in DOMAIN MagicBytes |-> HasPrefix(bytes, MagicBytes[name])])
        hashes == Matching(HashPatterns(bytes))
        encs   == Matching(EncodingChecks(bytes))
    IN  IF files # {} THEN {Type("File", name) : name \in files}
        ELSE IF hashes # {} THEN {Type("Hash", name) : name \in hashes}
        ELSE IF encs # {} THEN {Type("Encoded Text", name) : name \in encs}
        ELSE {Unknown}

-----------------------------------------------------------------------------
(* RSAAttackEngine: solver_rsa.go.  A *big.Int, and a match of a regexp, is *)
(* Some(value) or Nil; the numbers of the inputs below fit the integers of  *)
(* the checker.                                                             *)

Some(v) == [ok |-> TRUE, val |-> v]
Nil == [ok |-> FALSE]

\* c is the ASCII letter (given in lower case) in either case
FoldsTo(c, letter) == c = letter \/ c = letter - 32

\* \s of the regexp package: [\t\n\f\r ]
IsSpace(c) == c \in {9, 10, 12, 13, 32}

\* The first position from i on that holds no \s (Len(s) + 1 at the end).
SkipSpace(s, i) ==
    CHOOSE j \in i..(Len(s) + 1) :
        /\ j = Len(s) + 1 \/ ~IsSpace(s[j])
        /\ \A k \in i..(j - 1) : IsSpace(s[k])

\* The last position of the longest run of [0-9a-f] (either case) from i on.
HexRunEnd(s, i) ==
    CHOOSE j \in (i - 1)..Len(s) :
        /\ j = Len(s) \/ ~IsHexDigit(s[j + 1])
        /\ \A k \in i..j : IsHexDigit(s[k])

RECURSIVE WordEnd(_, _, _, _)
\* The position after the letters word[j..] matched at s[i..] under (?i), or
\* 0: a letter matches in either case, and under Unicode case folding 's'
\* also matches U+017F and 'k' also matches U+212A.
WordEnd(s, i, word, j) ==
    IF j > Len(word) THEN i
    ELSE IF i > Len(s) THEN 0
    ELSE IF FoldsTo(s[i], word[j]) THEN WordEnd(s, i + 1, word, j + 1)
    ELSE IF word[j] = 115 /\ i + 1 <= Len(s) /\ s[i] = 197 /\ s[i + 1] = 191
    THEN WordEnd(s, i + 2, word, j + 1)
    ELSE IF word[j] = 107 /\ i + 2 <= Len(s)
            /\ s[i] = 226 /\ s[i + 1] = 132 /\ s[i + 2] = 170
    THEN WordEnd(s, i + 3, word, j + 1)
    ELSE 0

\* \s*[:=]\s*(?:0x)?([0-9a-f]+) matched from position k: the text from the
\* first character after the separator and its spaces to the end of the
\* match, which is what extract hands to SetString; Nil when there is no match.
AssignedText(s, k) ==
    LET sep == SkipSpace(s, k)
    IN  IF sep > Len(s) \/ s[sep] \notin {58, 61} THEN Nil
        ELSE LET num == SkipSpace(s, sep + 1)
             IN  IF num + 2 <= Len(s) /\ s[num] = 48 /\ s[num + 1] \in {120, 88}
                    /\ IsHexDigit(s[num + 2])
                 THEN Some(SubSeq(s, num, HexRunEnd(s, num + 2)))
                 ELSE IF num <= Len(s) /\ IsHexDigit(s[num])
                 THEN Some(SubSeq(s, num, HexRunEnd(s, num)))
                 ELSE Nil

\* (?i)(?:letter|word)\s*[:=]\s*(?:0x)?([0-9a-f]+) matched at position i
MatchAt(s, i, letter, word) ==
    LET short == IF FoldsTo(s[i], letter) THEN AssignedText(s, i + 1) ELSE Nil
        long  == WordEnd(s, i, word, 1)
    IN  IF short.ok THEN short
        ELSE IF long # 0 THEN AssignedText(s, long)
        ELSE Nil

RECURSIVE NumberFrom(_, _, _, _)
\* The digits t[i..] in the base, after the value acc of the digits before;
\* Nil at a character that is no digit of the base.
NumberFrom(t, base, i, acc) ==
    IF i > Len(t) THEN Some(acc)
    ELSE LET d == HexVal(t[i])
         IN  IF d < 0 \/ d >= base THEN Nil
             ELSE NumberFrom(t, base, i + 1, acc * base + d)

\* (*big.Int).SetString(t, 0) on a text without sign: "0x" is hexadecimal,
\* "0b" binary, "0o" and a leading "0" octal, anything else decimal; Nil
\* when it fails.
SetStringBase0(t) ==
    IF Len(t) = 0 THEN Nil
    ELSE IF t[1] = 48 /\ Len(t) >= 2
    THEN IF t[2] \in {120, 88}
         THEN IF Len(t) = 2 THEN Nil ELSE NumberFrom(t, 16, 3, 0)
         ELSE IF t[2] \in {98, 66}
         THEN IF Len(t) = 2 THEN Nil ELSE NumberFrom(t, 2, 3, 0)
         ELSE IF t[2] \in {111, 79}
         THEN IF Len(t) = 2 THEN Nil ELSE NumberFrom(t, 8, 3, 0)
         ELSE NumberFrom(t, 8, 2, 0)
    ELSE NumberFrom(t, 10, 1, 0)

\* extract: the leftmost match of the pattern decides; Nil without a match
\* or when SetString rejects the matched text.
Extract(s, letter, word) ==
    LET hits == {i \in 1..Len(s) : MatchAt(s, i, letter, word).ok}
    IN  IF hits = {} THEN Nil
        ELSE LET first == CHOOSE i \in hits : \A j \in hits : i <= j
             IN  SetStringBase0(MatchAt(s, first, letter, word).val)

Modulus == S(<<"m", "o", "d", "u", "l", "u", "s">>)
Exponent == S(<<"e", "x", "p", "o", "n", "e", "n", "t">>)
Ciphertext == S(<<"c", "i", "p", "h", "e", "r", "t", "e", "x", "t">>)

\* src/unnamed/part_002:22
ParseRSA(input) ==
    [ N |-> Extract(input, 110, Modulus),
      E |-> Extract(input, 101, Exponent),
      C |-> Extract(input, 99, Ciphertext) ]

RECURSIVE PowLoop(_, _, _, _)
PowLoop(b, e, acc, cap) ==
    IF e = 0 THEN acc
    ELSE IF acc > cap \div b THEN cap + 1
    ELSE PowLoop(b, e - 1, acc * b, cap)

\* b^e when it is at most cap, and cap + 1 when it is more: all that a
\* comparison of Exp(b, e, nil) with cap needs.
PowCap(b, e, cap) ==
    IF e = 0 THEN 1
    ELSE IF b = 0 THEN 0
    ELSE IF b = 1 THEN 1
    ELSE PowLoop(b, e, 1, cap)

RECURSIVE IrootLoop(_, _, _, _, _)
\* the loop `for low.Cmp(high) <= 0` of iroot
IrootLoop(base, root, low, high, ans) ==
    IF low > high THEN ans
    ELSE LET mid == (low + high) \div 2
             pow == PowCap(mid, root, base)
         IN  IF pow = base THEN mid
             ELSE IF pow < base THEN IrootLoop(base, root, mid + 1, high, mid)
             ELSE IrootLoop(base, root, low, mid - 1, ans)

\* iroot searching below base / 2 only, for every root
irootBelowHalf(base, root) ==
    IrootLoop(base, root, 0, base \div 2, 0)

\* src/unnamed/part_002:126
iroot(base, root) ==
    IF root = 1 THEN base ELSE IrootLoop(base, root, 0, base, 0)

RECURSIVE bigIntToString(_)
\* string(i.Bytes()): the big-endian bytes of i, none for 0
bigIntToString(i) ==
    IF i = 0 THEN <<>> ELSE Append(bigIntToString(i \div 256), i % 256)

RSAFail ==
    [Success |-> FALSE, Algorithm |-> <<>>, DecodedData |-> <<>>,
     queried |-> FALSE, panicked |-> FALSE]

SmallExponentLimit == 100000

\* Attack 1 of SolveRSA: the candidates m and m + 1, in this order.
SmallExponentAttack(params) ==
    IF params.E.val < SmallExponentLimit
    THEN LET m == iroot(params.C.val, params.E.val)
             hit(cand) == PowCap(cand, params.E.val, params.C.val) = params.C.val
             won(cand) == [Success |-> TRUE,
                           Algorithm |-> <<"RSA Small Exponent (e=%s)", params.E.val>>,
                           DecodedData |-> bigIntToString(cand),
                           queried |-> FALSE, panicked |-> FALSE]
         IN  IF hit(m) THEN won(m)
             ELSE IF hit(m + 1) THEN won(m + 1)
             ELSE RSAFail
    ELSE RSAFail

\* What the FactorDB API answered: err for a transport, read or JSON error,
\* otherwise the status and the factors, each factor a list of JSON values.
\* A JSON value is a string holding a numeral (kind "string"), a number
\* (kind "float64"), or anything else (kind "other"), with its value in num.
Str(n) == [kind |-> "string", num |-> n]
Num(n) == [kind |-> "float64", num |-> n]
Other == [kind |-> "other", num |-> 0]
Response(status, factors) == [err |-> FALSE, status |-> status, factors |-> factors]
NoResponse == [err |-> TRUE, status |-> "", factors |-> <<>>]

\* getFactor and SetString(_, 0) on a fresh big.Int, which is 0 and stays 0
\* when the text is empty.
FactorValue(f) == IF f.kind \in {"string", "float64"} THEN f.num ELSE 0

NoFactors == [found |-> FALSE, p |-> 0, q |-> 0, panicked |-> FALSE]
IndexOutOfRange == [found |-> FALSE, p |-> 0, q |-> 0, panicked |-> TRUE]

\* src/unnamed/part_002:166, given the answer of the API.  Indexing a factor
\* list that is too short is a run-time panic.
queryFactorDB(resp) ==
    IF resp.err THEN NoFactors
    ELSE IF resp.status \notin {"FF", "CF"} THEN NoFactors
    ELSE LET factors == resp.factors
         IN  IF Len(factors) >= 2 /\ (Len(factors[1]) = 0 \/ Len(factors[2]) = 0)
             THEN IndexOutOfRange
             ELSE IF Len(factors) >= 2
                     /\ FactorValue(factors[1][1]) > 0 /\ FactorValue(factors[2][1]) > 0
             THEN [found |-> TRUE, p |-> FactorValue(factors[1][1]),
                   q |-> FactorValue(factors[2][1]), panicked |-> FALSE]
             ELSE IF Len(factors) = 1
             THEN IF Len(factors[1]) < 2 THEN IndexOutOfRange
                  ELSE IF factors[1][2].kind = "float64" /\ factors[1][2].num = 2
                  THEN [found |-> TRUE, p |-> FactorValue(factors[1][1]),
                        q |-> FactorValue(factors[1][1]), panicked |-> FALSE]
                  ELSE NoFactors
             ELSE NoFactors

\* ModInverse that gives 0 where there is no inverse
ModInverseNeverNil(g, n) ==
    LET inv == {x \in 0..(n - 1) : ((g % n) * x) % n = 1}
    IN  IF inv = {} THEN Some(0) ELSE Some(CHOOSE x \in inv : TRUE)

\* (*big.Int).ModInverse(g, n) for n >= 1: Nil when gcd(g, n) # 1, and 0 in
\* the ring of one element
ModInverse(g, n) ==
    LET inv == {x \in 0..(n - 1) : ((g % n) * x) % n = 1}
    IN  IF n = 1 THEN Some(0)
        ELSE IF inv = {} THEN Nil ELSE Some(CHOOSE x \in inv : TRUE)

RECURSIVE ModExp(_, _, _)
\* (*big.Int).Exp(b, e, m) for m >= 1
ModExp(b, e, m) ==
    IF e = 0 THEN 1 % m
    ELSE LET half == ModExp(b, e \div 2, m)
             sq   == (half * half) % m
         IN  IF e % 2 = 1 THEN (sq * (b % m)) % m ELSE sq

\* Attack 2 of SolveRSA, given the answer of the API
FactorDBAttack(params, resp) ==
    LET f == queryFactorDB(resp)
    IN  IF f.panicked THEN [RSAFail EXCEPT !.queried = TRUE, !.panicked = TRUE]
        ELSE IF f.found
        THEN LET phi == (f.p - 1) * (f.q - 1)
                 d   == ModInverse(params.E.val, phi)
             IN  IF ~d.ok THEN [RSAFail EXCEPT !.queried = TRUE]
                 ELSE [Success |-> TRUE,
                       Algorithm |-> <<"RSA FactorDB (Weak Key)">>,
                       DecodedData |-> bigIntToString(ModExp(params.C.val, d.val, params.N.val)),
                       queried |-> TRUE, panicked |-> FALSE]
        ELSE [RSAFail EXCEPT !.queried = TRUE]

\* SolveRSA with the FactorDB query made whatever the flag says.
SolveRSAAlwaysOnline(params, flag, resp) ==
    IF ~params.N.ok \/ ~params.E.ok \/ ~params.C.ok THEN RSAFail
    ELSE LET small == SmallExponentAttack(params)
         IN  IF small.Success THEN small
             ELSE FactorDBAttack(params, resp)

\* src/unnamed/part_002:64, given the answer the API has for a query.
\* queried tells whether queryFactorDB was called.
SolveRSA(params, flag, resp) ==
    IF ~params.N.ok \/ ~params.E.ok \/ ~params.C.ok THEN RSAFail
    ELSE LET small == SmallExponentAttack(params)
         IN  IF small.Success THEN small
             ELSE IF flag THEN FactorDBAttack(params, resp)
             ELSE RSAFail

\* src/solver_online.go:41, given what the nitrxgen lookup answers: only MD5
\* and NTLM hashes are looked up.
ActiveLookup(hashType, found) ==
    IF hashType \in {"MD5", "NTLM"} THEN found ELSE FALSE

-----------------------------------------------------------------------------
(* PolyAlphabeticEngine: the Vigenere dictionary attack of solver_poly.go  *)

\* unicode.IsLetter and unicode.IsUpper for the runes up to U+00FF
IsLetterRune(r) ==
    \/ IsUpper(r) \/ IsLower(r)
    \/ r \in {170, 181, 186}
    \/ (r >= 192 /\ r <= 255 /\ r # 215 /\ r # 247)
IsUpperRune(r) == IsUpper(r) \/ (r >= 192 /\ r <= 222 /\ r # 215)

\* vigenereDecrypt with a key index that every rune advances
VigenereStepAdvancing(s, vkey, st) ==
    LET i == st.pos
        w == RuneLen(s, i)
        r == IF w = 1 THEN s[i] ELSE (s[i] - 192) * 64 + (s[i + 1] - 128)
        shift == vkey[(st.keyIndex % Len(vkey)) + 1] - 65
    IN  IF w = 0
        THEN [pos |-> i + 1, out |-> st.out \o RuneError, keyIndex |-> st.keyIndex + 1]
        ELSE IF w > 2 \/ ~IsLetterRune(r)
        THEN [pos |-> i + w, out |-> st.out \o SubSeq(s, i, i + w - 1),
              keyIndex |-> st.keyIndex + 1]
        ELSE IF IsUpperRune(r)
        THEN [pos |-> i + w, out |-> Append(st.out, 65 + ((r - 65 - shift + 26) % 26)),
              keyIndex |-> st.keyIndex + 1]
        ELSE [pos |-> i + w, out |-> Append(st.out, 97 + ((r - 97 - shift + 26) % 26)),
              keyIndex |-> st.keyIndex + 1]

\* One iteration of the loop of vigenereDecrypt, at st.pos with st.keyIndex.
\* Runes above U+00FF are copied as they are: the inputs hold none that is
\* a letter.
VigenereStep(s, vkey, st) ==
    LET i == st.pos
        w == RuneLen(s, i)
        r == IF w = 1 THEN s[i] ELSE (s[i] - 192) * 64 + (s[i + 1] - 128)
        shift == vkey[(st.keyIndex % Len(vkey)) + 1] - 65
    IN  IF w = 0
        THEN [pos |-> i + 1, out |-> st.out \o RuneError, keyIndex |-> st.keyIndex]
        ELSE IF w > 2 \/ ~IsLetterRune(r)
        THEN [pos |-> i + w, out |-> st.out \o SubSeq(s, i, i + w - 1),
              keyIndex |-> st.keyIndex]
        ELSE IF IsUpperRune(r)
        THEN [pos |-> i + w, out |-> Append(st.out, 65 + ((r - 65 - shift + 26) % 26)),
              keyIndex |-> st.keyIndex + 1]
        ELSE [pos |-> i + w, out |-> Append(st.out, 97 + ((r - 97 - shift + 26) % 26)),
              keyIndex |-> st.keyIndex + 1]

RECURSIVE VigenereRun(_, _, _, _)
\* At most n iterations from st, stopping at the end of s.
VigenereRun(s, vkey, n, st) ==
    IF st.pos > Len(s) \/ n = 0 THEN st
    ELSE IF n = 1 THEN VigenereStep(s, vkey, st)
    ELSE LET left == VigenereRun(s, vkey, n \div 2, st)
         IN  IF left.pos > Len(s) THEN left
             ELSE VigenereRun(s, vkey, n - (n \div 2), left)

\* src/solver_poly.go:78
vigenereDecrypt(input, vkey) ==
    VigenereRun(input, vkey, Len(input), [pos |-> 1, out |-> <<>>, keyIndex |-> 0]).out

\* The embedded dictionary, in its order
VigenereKeys ==
    << S(<<"C", "Y", "L", "A", "B">>),
       S(<<"P", "I", "C", "O">>),
       S(<<"F", "L", "A", "G">>),
       S(<<"A", "D", "M", "I", "N">>),
       S(<<"P", "A", "S", "S", "W", "O", "R", "D">>) >>

\* src/solver_poly.go:62: the first key whose decryption holds a flag marker
SolveVigenere(input) ==
    LET hits == {k \in 1..Len(VigenereKeys) :
                    HasFlag(vigenereDecrypt(input, VigenereKeys[k]))}
    IN  IF hits = {} THEN [text |-> <<>>, key |-> <<>>]
        ELSE LET first == CHOOSE k \in hits : \A j \in hits : k <= j
             IN  [text |-> vigenereDecrypt(input, VigenereKeys[first]),
                  key |-> VigenereKeys[first]]

-----------------------------------------------------------------------------
(* Orchestrator: main and orchestrate of main.go.  pc is the position in    *)
(* the current call of orchestrate; stack holds the calls that wait for     *)
(* their recursive call to return; log lists, with the depth of the layer,  *)
(* each section the run entered and each solver or oracle it called.        *)

\* The encodings of the runes unicode.IsSpace accepts
SpaceRunes ==
    { <<9>>, <<10>>, <<11>>, <<12>>, <<13>>, <<32>>, <<194, 133>>, <<194, 160>>,
      <<225, 154, 128>>, <<226, 128, 168>>, <<226, 128, 169>>, <<226, 128, 175>>,
      <<226, 129, 159>>, <<227, 128, 128>> }
        \cup {<<226, 128, b>> : b \in 128..138}

\* bytes.TrimSpace: a byte is dropped when it and every byte before it, or it
\* and every byte after it, lie in encodings of white space.
TrimSpace(bytes) ==
    LET white(k) == \E r \in SpaceRunes : \E st \in (k - Len(r) + 1)..k :
                        /\ st >= 1 /\ st + Len(r) - 1 <= Len(bytes)
                        /\ SubSeq(bytes, st, st + Len(r) - 1) = r
        keep == {k \in 1..Len(bytes) : ~white(k)}
    IN  IF keep = {} THEN <<>>
        ELSE SubSeq(bytes, CHOOSE k \in keep : \A j \in keep : k <= j,
                           CHOOSE k \in keep : \A j \in keep : j <= k)

\* main.go 56-59: the buffer main hands to orchestrate
MainInput(raw) ==
    IF \E i \in 1..Len(raw) : raw[i] = 0 THEN raw ELSE TrimSpace(raw)

\* main.go 66
DepthLimitReachedLate(d) == d > 6

\* main.go 66
DepthLimitReached(d) == d > 5

\* main.go 107
IsRSA(params) == params.N.ok /\ params.E.ok /\ params.C.ok

Event(ev) == [ev |-> ev, depth |-> depth]

Emit(evs) == log' = log \o [i \in 1..Len(evs) |-> Event(evs[i])]

NoCall ==
    /\ fn = ""
    /\ arg = <<>>
    /\ key = 0
    /\ res = <<>>

\* The answers the FactorDB API gives in the model
FactorDBResponses ==
    { NoResponse,
      Response("C", << <<Str(3233), Num(1)>> >>),
      Response("FF", << <<Str(61), Num(1)>>, <<Str(53), Num(1)>> >>),
      Response("FF", << <<Str(7), Num(2)>> >>),
      Response("FF", << <<Str(3233)>> >>) }

\* main.go 65-128: the depth check, identification and statistics
Analyze ==
    /\ pc = "enter"
    /\ IF DepthLimitReached(depth)
       THEN /\ Emit(<<"DepthLimit">>)
            /\ outcome' = "DepthLimit"
            /\ pc' = "return"
            /\ UNCHANGED ident
       ELSE /\ \E t \in Identify(data) :
                 ident' = IF IsRSA(ParseRSA(data)) THEN RSAChallengeData ELSE t
            /\ Emit(<<"Analysis">>)
            /\ pc' = IF IsRSA(ParseRSA(data)) THEN "rsa" ELSE "local"
            /\ UNCHANGED outcome
    /\ UNCHANGED <<data, online, depth, stack>>
    /\ UNCHANGED fvars

\* main.go 131-141 with a success that goes on into the decoded message
RSAHookRecursing ==
    /\ pc = "rsa"
    /\ \E resp \in FactorDBResponses :
         LET r == SolveRSA(ParseRSA(data), online, resp)
             called == IF r.queried THEN <<"RSASolver", "queryFactorDB">>
                       ELSE <<"RSASolver">>
         IN  IF r.panicked
             THEN /\ Emit(called \o <<"Panic">>)
                  /\ outcome' = "Panic"
                  /\ pc' = "done"
                  /\ UNCHANGED <<data, depth, ident, stack>>
             ELSE IF r.Success
             THEN /\ Emit(called \o <<"RSASuccess">>)
                  /\ stack' = Append(stack, [data |-> data, depth |-> depth, ident |-> ident])
                  /\ data' = r.DecodedData
                  /\ depth' = depth + 1
                  /\ ident' = NoType
                  /\ pc' = "enter"
                  /\ UNCHANGED outcome
             ELSE /\ Emit(called \o <<"RSAFail">>)
                  /\ pc' = "local"
                  /\ UNCHANGED <<data, depth, ident, stack, outcome>>
    /\ UNCHANGED online
    /\ UNCHANGED fvars

\* main.go 131-141: the RSA solver hook
RSAHook ==
    /\ pc = "rsa"
    /\ \E resp \in FactorDBResponses :
         LET r == SolveRSA(ParseRSA(data), online, resp)
             called == IF r.queried THEN <<"RSASolver", "queryFactorDB">>
                       ELSE <<"RSASolver">>
         IN  IF r.panicked
             THEN /\ Emit(called \o <<"Panic">>)
                  /\ outcome' = "Panic"
                  /\ pc' = "done"
             ELSE IF r.Success
             THEN /\ Emit(called \o <<"RSASuccess">>)
                  /\ outcome' = "Success"
                  /\ pc' = "return"
             ELSE /\ Emit(called \o <<"RSAFail">>)
                  /\ pc' = "local"
                  /\ UNCHANGED outcome
    /\ UNCHANGED <<data, online, depth, ident, stack>>
    /\ UNCHANGED fvars

\* main.go 144-159: the local solver, which recurses on success
LocalSolver ==
    /\ pc = "local"
    /\ IF depth = 0 \/ ident.class = "Encoded Text" \/ EntropyBelow75(data)
       THEN LET result == TryDecode(data)
            IN  IF result.Success
                THEN /\ Emit(<<"LocalSolver", "LocalSuccess">>)
                     /\ stack' = Append(stack, [data |-> data, depth |-> depth, ident |-> ident])
                     /\ data' = result.DecodedData
                     /\ depth' = depth + 1
                     /\ ident' = NoType
                     /\ pc' = "enter"
                ELSE /\ Emit(<<"LocalSolver", "LocalFail">>)
                     /\ pc' = "poly"
                     /\ UNCHANGED <<data, depth, ident, stack>>
       ELSE /\ pc' = "poly"
            /\ UNCHANGED <<data, depth, ident, stack, log>>
    /\ UNCHANGED <<online, outcome>>
    /\ UNCHANGED fvars

\* main.go 162-189 with a success that falls through to the online fallback
PolySolverFallsThrough ==
    /\ pc = "poly"
    /\ IF ident = Unknown \/ EntropyAbove3(data)
       THEN LET xor == SolveSingleByteXOR(data)
                vig == SolveVigenere(data)
            IN  IF xor.score >= InstantWin
                THEN /\ Emit(<<"PolySolver", "XOR", "XORSuccess">>)
                     /\ outcome' = "Success"
                     /\ pc' = "online"
                ELSE IF EntropyBelow6(data)
                THEN IF vig.text # <<>>
                     THEN /\ Emit(<<"PolySolver", "XOR", "Vigenere", "VigenereSuccess">>)
                          /\ outcome' = "Success"
                          /\ pc' = "online"
                     ELSE /\ Emit(<<"PolySolver", "XOR", "Vigenere", "PolyFail">>)
                          /\ pc' = "online"
                          /\ UNCHANGED outcome
                ELSE /\ Emit(<<"PolySolver", "XOR", "PolyFail">>)
                     /\ pc' = "online"
                     /\ UNCHANGED outcome
       ELSE /\ pc' = "online"
            /\ UNCHANGED <<log, outcome>>
    /\ UNCHANGED <<data, online, depth, ident, stack>>
    /\ UNCHANGED fvars

\* main.go 162-189: the poly solver, XOR and then Vigenere
PolySolver ==
    /\ pc = "poly"
    /\ IF ident = Unknown \/ EntropyAbove3(data)
       THEN LET xor == SolveSingleByteXOR(data)
                vig == SolveVigenere(data)
            IN  IF xor.score >= InstantWin
                THEN /\ Emit(<<"PolySolver", "XOR", "XORSuccess">>)
                     /\ outcome' = "Success"
                     /\ pc' = "return"
                ELSE IF EntropyBelow6(data)
                THEN IF vig.text # <<>>
                     THEN /\ Emit(<<"PolySolver", "XOR", "Vigenere", "VigenereSuccess">>)
                          /\ outcome' = "Success"
                          /\ pc' = "return"
                     ELSE /\ Emit(<<"PolySolver", "XOR", "Vigenere", "PolyFail">>)
                          /\ pc' = "online"
                          /\ UNCHANGED outcome
                ELSE /\ Emit(<<"PolySolver", "XOR", "PolyFail">>)
                     /\ pc' = "online"
                     /\ UNCHANGED outcome
       ELSE /\ pc' = "online"
            /\ UNCHANGED <<log, outcome>>
    /\ UNCHANGED <<data, online, depth, ident, stack>>
    /\ UNCHANGED fvars

\* main.go 192-215: the online fallback; found is what the hash lookup
\* service answers when it is asked
OnlineFallback ==
    /\ pc = "online"
    /\ IF online /\ ident.class = "Hash"
       THEN \E found \in BOOLEAN :
              IF ActiveLookup(ident.name, found)
              THEN /\ Emit(<<"OnlineFallback", "ActiveLookup", "LookupSuccess">>)
                   /\ outcome' = "Success"
              ELSE /\ Emit(<<"OnlineFallback", "ActiveLookup", "LookupFail", "MagicLinks">>)
                   /\ outcome' = "NoMatch"
       ELSE /\ Emit(<<"OnlineFallback", "MagicLinks">>)
            /\ outcome' = "NoMatch"
    /\ pc' = "return"
    /\ UNCHANGED <<data, online, depth, ident, stack>>
    /\ UNCHANGED fvars

\* The return of orchestrate: to the caller, which returns in its turn
\* (main.go 155), or to main, which ends the run.
Return ==
    /\ pc = "return"
    /\ IF stack = <<>>
       THEN /\ pc' = "done"
            /\ UNCHANGED <<data, depth, ident, stack>>
       ELSE /\ data' = stack[Len(stack)].data
            /\ depth' = stack[Len(stack)].depth
            /\ ident' = stack[Len(stack)].ident
            /\ stack' = SubSeq(stack, 1, Len(stack) - 1)
            /\ pc' = "return"
    /\ UNCHANGED <<online, log, outcome>>
    /\ UNCHANGED fvars

\* The longest chain of nested URL escapes among the inputs
MaxEscapes == 6

\* "%" "25"^k "41": k + 1 URL decodings lead to "A"
UrlChain(k) == <<37>> \o [i \in 1..(2 * k) |-> IF i % 2 = 1 THEN 50 ELSE 53] \o <<52, 49>>

\* url.QueryEscape of a byte that is not left as it is
HexUpper(v) == IF v < 10 THEN 48 + v ELSE 55 + v
PercentEncode(bytes) ==
    [i \in 1..(3 * Len(bytes)) |->
        LET b == bytes[(i + 2) \div 3]
        IN  IF i % 3 = 1 THEN 37
            ELSE IF i % 3 = 2 THEN HexUpper(b \div 16)
            ELSE HexUpper(b % 16)]

\* 192 different bytes: an entropy of more than 7.5 bits
HighEntropyBytes == [i \in 1..192 |-> i - 1]

\* What main reads, before it trims it
RawInputs ==
    { <<>>,
      PercentEncode(HighEntropyBytes),
      <<32>> \o S(<<"Y", "U", "d", "r", "P", "Q", "=", "=">>) \o <<10>>,
      \* "HTB{k}" XORed with 0x42: a line feed first, and a NUL byte
      <<10, 22, 0, 57, 41, 63>>,
      \* "HTB{k}" under the Vigenere key PICO
      S(<<"W", "B", "D", "{", "k", "}">>),
      \* TestSmallExponentAttack
      S(<<"n", "=", "1", "0", "0", "0", "0", "0", " ", "e", "=", "3", " ",
          "c", "=", "7", "4", "0", "8", "8">>),
      \* p = 61, q = 53, d = 2753, m = 65
      S(<<"n", "=", "3", "2", "3", "3", ",", "e", "=", "1", "7", ",",
          "c", "=", "2", "7", "9", "0">>),
      \* "n=3233,e=17,c=2790" with its first '=' escaped
      S(<<"n", "%", "3", "D", "3", "2", "3", "3", ",", "e", "=", "1", "7", ",",
          "c", "=", "2", "7", "9", "0">>),
      \* no small root, and "HTB{" under PICO after the letters n, e, c
      S(<<"n", "=", "1", "5", " ", "e", "=", "3", " ", "c", "=", "2", " ",
          "V", "I", "J", "{">>),
      \* the MD5 and the SHA1 of the empty string
      S(<<"d", "4", "1", "d", "8", "c", "d", "9", "8", "f", "0", "0", "b", "2", "0", "4",
          "e", "9", "8", "0", "0", "9", "9", "8", "e", "c", "f", "8", "4", "2", "7", "e">>),
      S(<<"d", "a", "3", "9", "a", "3", "e", "e", "5", "e", "6", "b", "4", "b", "0", "d",
          "3", "2", "5", "5", "b", "f", "e", "f", "9", "5", "6", "0", "1", "8", "9", "0",
          "a", "f", "d", "8", "0", "7", "0", "9">>),
      S(<<"c", "v", "p", "b", "P", "G", "S", "{", "k", "}">>),
      S(<<"3", "3", "3", "3">>),
      <<137, 80, 78, 71>>,
      \* the LUKS signature, and RSA parameters after it
      S(<<"L", "U", "K", "S", " ", "n", "=", "1", "5", " ", "e", "=", "3", " ",
          "c", "=", "8">>),
      \* "e e e ... e": 38 letters e with a space between them
      [i \in 1..75 |-> IF i % 2 = 1 THEN 101 ELSE 32],
      S(<<"a", "+", "b">>) }
        \cup {UrlChain(k) : k \in 0..MaxEscapes}

Init ==
    /\ \E raw \in RawInputs : data = MainInput(raw)
    /\ online \in BOOLEAN
    /\ depth = 0
    /\ pc = "enter"
    /\ ident = NoType
    /\ stack = <<>>
    /\ log = <<>>
    /\ outcome = ""
    /\ NoCall

Next ==
    \/ Analyze
    \/ RSAHook
    \/ LocalSolver
    \/ PolySolver
    \/ OnlineFallback
    \/ Return

Spec == Init /\ [][Next]_vars

\* Weak fairness of Next, that is WF_vars(Next) with ENABLED <<Next>>_vars
\* written out: every action needs a pc other than "done", and at any other pc
\* one of them changes the state.  Each call of a solver comes to its end, and
\* so does each call of an oracle, whose HTTP client has a timeout.
NextIsFair == []<>(pc = "done") \/ []<><<Next>>_vars

FairSpec == Spec /\ NextIsFair

-----------------------------------------------------------------------------
(* A single call of a solver function on an input of a bounded set *)

OrchIdle ==
    /\ data = <<>>
    /\ online = FALSE
    /\ depth = 0
    /\ pc = "idle"
    /\ ident = NoType
    /\ stack = <<>>
    /\ log = <<>>
    /\ outcome = ""

\* Generated inputs are at most this long.
MaxDecodeLen == 4

\* % + = 4 Q : enough for padded Base64, Hex, %XX and '+' escapes.
DecodeAlphabet == {37, 43, 61, 52, 81}

\* N a, the two bytes of U+00E9, and 0xFF, which no UTF-8 encoding holds.
RuneAlphabet == {78, 97, 195, 169, 255}

DecodeLiterals ==
    { S(<<"q", "j", "d", "p", "D", "U", "G">>),                 \* TestCaesarBruteForce
      S(<<"c", "v", "p", "b", "P", "G", "S", "{", "g", "}">>),  \* as TestRot13
      S(<<"p", "i", "c", "o", "c", "t", "f">>),
      S(<<"P", "I", "C", "O", "C", "T", "F", "{", "x", "}">>),
      \* two shifts hit: 1 on the first word and 2 on the second
      S(<<"o", "h", "b", "n", "b", "s", "e", " ", "n", "g", "a", "m", "a", "r", "d">>),
      S(<<"M", "F", "R", "G", "G", "=", "=", "=">>),             \* Base32 of "abc"
      S(<<"M", "F", "R", "G", "G", "Z", "D", "F">>),             \* Base32 and Base64
      S(<<"Y", "U", "d", "r", "P", "Q", "=", "=">>),             \* Base64 of "aGk="
      S(<<"c", "v", "p", "b", "%", "4", "1">>),                  \* URL and Rot13
      S(<<"h", "e", "l", "l", "o", " ", "w", "o", "r", "l", "d">>) }

DecodeInputs ==
    StringsUpTo(DecodeAlphabet, MaxDecodeLen)
        \cup StringsUpTo(RuneAlphabet, MaxDecodeLen)
        \cup DecodeLiterals

DecodeInit ==
    /\ OrchIdle
    /\ fn = ""
    /\ arg \in DecodeInputs
    /\ key = 0
    /\ res = <<>>

CallTryDecode ==
    /\ fn = ""
    /\ fn' = "TryDecode"
    /\ res' = TryDecode(arg)
    /\ UNCHANGED <<arg, key>>
    /\ UNCHANGED ovars

CallRot13 ==
    /\ fn = ""
    /\ fn' = "Rot13"
    /\ res' = Rot13(arg)
    /\ UNCHANGED <<arg, key>>
    /\ UNCHANGED ovars

\* Rot13 applied to what Rot13 returned.
CallRot13Again ==
    /\ fn = "Rot13"
    /\ fn' = "Rot13(Rot13)"
    /\ res' = Rot13(res.DecodedData)
    /\ UNCHANGED <<arg, key>>
    /\ UNCHANGED ovars

CallBruteForceCaesar ==
    /\ fn = ""
    /\ fn' = "BruteForceCaesar"
    /\ res' = BruteForceCaesar(arg)
    /\ UNCHANGED <<arg, key>>
    /\ UNCHANGED ovars

DecodeNext ==
    \/ CallTryDecode
    \/ CallRot13
    \/ CallRot13Again
    \/ CallBruteForceCaesar

DecodeSpec == DecodeInit /\ [][DecodeNext]_vars

\* The text after the flag marker of a plaintext is at most this long.
MaxPadLen == 1

\* A second marker in a plaintext is masked with a byte from 1 up to this one.
MaxMask == 1

\* Inputs that no key turns into a flag are at most this long.
MaxNoiseLen == 4

\* x
PadAlphabet == {120}

\* one byte of each combination of the two top bits
NoiseAlphabet == {0, 64, 128, 192}

\* E e
TieAlphabet == {69, 101}

Markers == {PicoCTFBrace, HTBBrace}

\* What may follow the marker: a short text, or a marker masked with a byte.
XorTails ==
    StringsUpTo(PadAlphabet, MaxPadLen)
        \cup {XorBytes(m, d) : m \in Markers, d \in 1..MaxMask}

\* Plaintexts that contain "picoCTF{" or "HTB{".
FlagPlaintexts ==
    {m \o post : m \in Markers, post \in XorTails}
        \cup {<<120>> \o m : m \in Markers}
        \cup {S(<<"p", "i", "c", "o", "C", "T", "F", "{", "x", "o", "r", "}">>)}  \* TestXORSolver

NoiseInputs ==
    StringsUpTo(NoiseAlphabet, MaxNoiseLen) \cup StringsUpTo(TieAlphabet, MaxNoiseLen)

\* The caller encrypts a flag plaintext with any key byte, or hands over some
\* other buffer as it is.
XorInit ==
    /\ OrchIdle
    /\ fn = ""
    /\ res = <<>>
    /\ \/ \E pt \in FlagPlaintexts : \E k \in Byte :
              /\ arg = XorBytes(pt, k)
              /\ key = k
       \/ /\ arg \in NoiseInputs
          /\ key = 0

CallSolveSingleByteXOR ==
    /\ fn = ""
    /\ fn' = "SolveSingleByteXOR"
    /\ res' = SolveSingleByteXOR(arg)
    /\ UNCHANGED <<arg, key>>
    /\ UNCHANGED ovars

XorNext == CallSolveSingleByteXOR

XorSpec == XorInit /\ [][XorNext]_vars

-----------------------------------------------------------------------------
(* Properties of the local decode engine *)

\* The acceptance test of each strategy of TryDecode, in the order 1..6:
\* Base64, Hex, URL, Base32, ROT13, Caesar.
Qualifies(i, x) ==
    IF i = 1 THEN Base64Decode(x).ok /\ isPrintable(Base64Decode(x).out)
    ELSE IF i = 2 THEN HexDecode(x).ok /\ isPrintable(HexDecode(x).out)
    ELSE IF i = 3 THEN QueryUnescape(x).ok /\ QueryUnescape(x).out # x
    ELSE IF i = 4 THEN Base32Decode(x).ok /\ isPrintable(Base32Decode(x).out)
    ELSE IF i = 5 THEN Contains(ToLower(Rotate(x, 13)), Pico)
    ELSE \E shift \in 1..25 : Contains(ToLower(Rotate(x, shift)), CaesarTarget)

\* What strategy i returns when it is the one that ends TryDecode.
StrategyResult(i, x) ==
    IF i = 1
    THEN [Success |-> TRUE, Algorithm |-> <<"Base64">>, DecodedData |-> Base64Decode(x).out]
    ELSE IF i = 2
    THEN [Success |-> TRUE, Algorithm |-> <<"Hex">>, DecodedData |-> HexDecode(x).out]
    ELSE IF i = 3
    THEN [Success |-> TRUE, Algorithm |-> <<"URL Encoding">>, DecodedData |-> QueryUnescape(x).out]
    ELSE IF i = 4
    THEN [Success |-> TRUE, Algorithm |-> <<"Base32">>, DecodedData |-> Base32Decode(x).out]
    ELSE IF i = 5
    THEN [Success |-> TRUE, Algorithm |-> <<"Rot13">>, DecodedData |-> Rotate(x, 13)]
    ELSE LET s == CHOOSE s \in 1..25 :
                    /\ Contains(ToLower(Rotate(x, s)), CaesarTarget)
                    /\ \A t \in 1..(s - 1) :
                           ~Contains(ToLower(Rotate(x, t)), CaesarTarget)
         IN  [Success |-> TRUE,
              Algorithm |-> <<"Caesar Cipher (Shift %d)", s>>,
              DecodedData |-> Rotate(x, s)]

\* C5: TryDecode returns the result of the first strategy, in the order Base64,
\* Hex, URL, Base32, ROT13, Caesar, whose acceptance test holds, never a later
\* one's when an earlier one qualifies, and success=false exactly when none
\* qualifies.
C5_FirstQualifyingStrategy ==
    fn = "TryDecode" =>
        /\ \A i \in 1..6 :
               (Qualifies(i, arg) /\ \A j \in 1..(i - 1) : ~Qualifies(j, arg))
                   => res = StrategyResult(i, arg)
        /\ (res.Success = FALSE) <=> (\A i \in 1..6 : ~Qualifies(i, arg))

\* A non-empty input that both Base64 and URL decoding accept was decoded as
\* Base64.
C5_Witness ==
    /\ fn = "TryDecode"
    /\ arg # <<>>
    /\ Qualifies(1, arg)
    /\ Qualifies(3, arg)
    /\ res.Algorithm = <<"Base64">>

\* C6: TryDecode never reports a successful "URL Encoding" decode for an input
\* that contains no %XX escape.
C6_UrlSuccessNeedsEscape ==
    (fn = "TryDecode" /\ res.Success /\ res.Algorithm = <<"URL Encoding">>)
        => HasPercentEscape(arg)

QjdpDUG == S(<<"q", "j", "d", "p", "D", "U", "G">>)
PicoCTF == S(<<"p", "i", "c", "o", "C", "T", "F">>)

\* The shifts 1..25 whose rotation of x contains "picoctf", whatever its case.
MatchingShifts(x) ==
    {shift \in 1..25 : Contains(ToLower(Rotate(x, shift)), CaesarTarget)}

\* BruteForceCaesar fails when no shift matches, and otherwise returns the
\* lowest matching shift, named in the algorithm string, with its rotation.
CaesarFirstMatch ==
    fn = "BruteForceCaesar" =>
        IF MatchingShifts(arg) = {}
        THEN res.Success = FALSE
        ELSE \E s \in MatchingShifts(arg) :
                /\ \A t \in MatchingShifts(arg) : s <= t
                /\ res = [Success |-> TRUE,
                          Algorithm |-> <<"Caesar Cipher (Shift %d)", s>>,
                          DecodedData |-> Rotate(arg, s)]

\* C7 as stated: on "qjdpDUG" BruteForceCaesar succeeds with shift 3 and output
\* "picoCTF"; in general it returns the first matching shift of 1..25.
C7_ShiftThree ==
    /\ (fn = "BruteForceCaesar" /\ arg = QjdpDUG)
           => res = [Success |-> TRUE,
                     Algorithm |-> <<"Caesar Cipher (Shift %d)", 3>>,
                     DecodedData |-> PicoCTF]
    /\ CaesarFirstMatch

\* C7, amended: on "qjdpDUG" BruteForceCaesar succeeds with output "picoCTF" and
\* the shift it reports is 25 (the rotation is forward: 'q' + 25 = 'p'); in
\* general it returns the first matching shift of 1..25 and names it.
C7_ShiftTwentyFive ==
    /\ (fn = "BruteForceCaesar" /\ arg = QjdpDUG)
           => res = [Success |-> TRUE,
                     Algorithm |-> <<"Caesar Cipher (Shift %d)", 25>>,
                     DecodedData |-> PicoCTF]
    /\ CaesarFirstMatch

C7_Witness ==
    /\ fn = "BruteForceCaesar"
    /\ arg = QjdpDUG
    /\ res.Success

IsLetterByte(b) == (b >= 65 /\ b <= 90) \/ (b >= 97 /\ b <= 122)

\* C8: Rot13(Rot13(x)) = x for any input string; every ASCII letter is rotated
\* by 13 within its own case and every other character or byte of the input
\* passes through unchanged.
C8_Rot13SelfInverse ==
    /\ fn = "Rot13(Rot13)" => res.DecodedData = arg
    /\ fn = "Rot13" =>
           /\ Len(res.DecodedData) = Len(arg)
           /\ \A i \in 1..Len(arg) :
                  res.DecodedData[i] =
                      IF arg[i] >= 97 /\ arg[i] <= 122 THEN 97 + ((arg[i] - 97 + 13) % 26)
                      ELSE IF arg[i] >= 65 /\ arg[i] <= 90 THEN 65 + ((arg[i] - 65 + 13) % 26)
                      ELSE arg[i]

-----------------------------------------------------------------------------
(* Properties of the single-byte XOR solver *)

\* The keys whose decoding of the input contains a flag marker.
FlagKeys(input) == {k \in Byte : HasFlag(XorBytes(input, k))}

\* C9 as stated: for every plaintext that contains "picoCTF{" or "HTB{" and
\* every key byte k, SolveSingleByteXOR on the plaintext XORed with k returns
\* key k, the plaintext, and a confidence of at least 1000.0.
C9_RecoversKey ==
    (fn = "SolveSingleByteXOR" /\ HasFlag(XorBytes(arg, key)))
        => /\ res.key = key
           /\ res.text = XorBytes(arg, key)
           /\ res.score >= InstantWin

\* C9, amended: for such a plaintext and key k, SolveSingleByteXOR returns the
\* confidence 1000.0 with the lowest key whose decoding of the input contains
\* "picoCTF{" or "HTB{", and that decoding; this is k and the plaintext unless
\* a key below k also decodes the input to a text with a marker.
C9_RecoversLowestFlagKey ==
    (fn = "SolveSingleByteXOR" /\ HasFlag(XorBytes(arg, key)))
        => LET flagKeys == FlagKeys(arg)
           IN  /\ res.score = InstantWin
               /\ res.key \in flagKeys
               /\ \A k \in flagKeys : res.key <= k
               /\ res.text = XorBytes(arg, res.key)
               /\ (\A k \in flagKeys : k >= key)
                      => (res.key = key /\ res.text = XorBytes(arg, key))

\* The plaintext of TestXORSolver, encrypted with 0x42, was solved.
C9_Witness ==
    /\ fn = "SolveSingleByteXOR"
    /\ key = 66
    /\ XorBytes(arg, key) = S(<<"p", "i", "c", "o", "C", "T", "F", "{", "x", "o", "r", "}">>)
    /\ res.key = 66
    /\ res.score = InstantWin

\* C10: when no key produces a flag marker, SolveSingleByteXOR returns the
\* (text, key, score) of the key whose score is the maximum over all 256 keys,
\* text = input XOR key, score that key's computed score, and of the keys tied
\* for the maximum the lowest.
C10_ReturnsBestTriple ==
    (fn = "SolveSingleByteXOR" /\ FlagKeys(arg) = {})
        => LET scores == [k \in Byte |-> XorScore(arg, k)]
           IN  /\ \A k \in Byte : scores[k] <= scores[res.key]
               /\ \A k \in 0..(res.key - 1) : scores[k] < scores[res.key]
               /\ res.text = XorBytes(arg, res.key)
               /\ res.score = scores[res.key]


-----------------------------------------------------------------------------
(* Properties of the orchestrator *)

\* Entering a layer: its analysis, or the depth-limit message
LayerEntries == {"Analysis", "DepthLimit"}

\* The successes that are final
FinalSuccesses == {"RSASuccess", "XORSuccess", "VigenereSuccess", "LookupSuccess"}

\* Every layer that was analysed had a successful local decode
EveryLocalDecodeSucceeded ==
    \A i \in 1..Len(log) : log[i].ev = "Analysis" =>
        \E j \in 1..Len(log) : log[j] = [ev |-> "LocalSuccess", depth |-> log[i].depth]

\* Analysis, local solver and local success at each depth 0..5, and then the
\* depth-limit message at depth 6
SixLayersThenLimit ==
    /\ Len(log) = 19
    /\ \A d \in 0..5 :
         /\ log[3 * d + 1] = [ev |-> "Analysis", depth |-> d]
         /\ log[3 * d + 2] = [ev |-> "LocalSolver", depth |-> d]
         /\ log[3 * d + 3] = [ev |-> "LocalSuccess", depth |-> d]
    /\ log[19] = [ev |-> "DepthLimit", depth |-> 6]

\* C1: a run of orchestrate from depth 0 terminates, whatever the input and
\* the online flag; nothing is analysed in a layer of depth more than 5; and a
\* run in which the local decode of every layer succeeds (the empty buffer,
\* which decodes to itself, included) ends with the depth-limit outcome at
\* depth 6, after the analysis of the six layers 0..5 and nothing more.
C1_TerminatesWithinSixLayers ==
    /\ <>(pc = "done")
    /\ [](/\ depth <= 6
          /\ \A i \in 1..Len(log) :
                IF log[i].ev = "DepthLimit" THEN log[i].depth = 6
                ELSE log[i].depth <= 5)
    /\ []((pc = "done" /\ EveryLocalDecodeSucceeded)
            => (outcome = "DepthLimit" /\ SixLayersThenLimit))

\* The empty buffer went down to the depth limit: Base64 decodes it to itself
\* in each of the six layers.
C1_Witness ==
    /\ pc = "done"
    /\ data = <<>>
    /\ EveryLocalDecodeSucceeded
    /\ outcome = "DepthLimit"
    /\ log[Len(log)] = [ev |-> "DepthLimit", depth |-> 6]

\* The place of an event in the order of a layer: the RSA attack, the local
\* decode, XOR, Vigenere, the online fallback
Rank(ev) ==
    IF ev \in LayerEntries THEN 0
    ELSE IF ev \in {"RSASolver", "queryFactorDB", "RSASuccess", "RSAFail", "Panic"} THEN 1
    ELSE IF ev \in {"LocalSolver", "LocalSuccess", "LocalFail"} THEN 2
    ELSE IF ev \in {"PolySolver", "XOR", "XORSuccess"} THEN 3
    ELSE IF ev \in {"Vigenere", "VigenereSuccess", "PolyFail"} THEN 4
    ELSE 5

\* C2: in one layer the strategies run in the order RSA attack, local decode,
\* XOR, Vigenere, online fallback, and the first one that succeeds ends the
\* layer: nothing of that layer runs after a success of its RSA attack, of its
\* local decode, of its XOR or Vigenere solve.
C2_FirstSuccessEndsLayer ==
    \A i, j \in 1..Len(log) :
        (i < j /\ log[i].depth = log[j].depth) =>
            /\ Rank(log[i].ev) <= Rank(log[j].ev)
            /\ log[i].ev \notin FinalSuccesses \cup {"LocalSuccess"}

\* The RSA attack and the local decode failed, the XOR solve found nothing,
\* Vigenere succeeded, and the online fallback of the layer did not run.
C2_Witness ==
    /\ pc = "done"
    /\ outcome = "Success"
    /\ \E i, j, k, l \in 1..Len(log) :
         /\ i < j /\ j < k /\ k < l
         /\ log[i] = [ev |-> "RSAFail", depth |-> 0]
         /\ log[j] = [ev |-> "LocalFail", depth |-> 0]
         /\ log[k] = [ev |-> "XOR", depth |-> 0]
         /\ log[l] = [ev |-> "VigenereSuccess", depth |-> 0]
         /\ l = Len(log)

OracleCalls == {"queryFactorDB", "ActiveLookup"}

\* C4: with the online flag false no layer of the run calls queryFactorDB or
\* ActiveLookup, whatever the input; and every layer of a run has the flag
\* that was given at depth 0.
C4_OfflineCallsNoOracle ==
    /\ [](~online => \A i \in 1..Len(log) : log[i].ev \notin OracleCalls)
    /\ [][online' = online]_vars

\* An offline run whose layer of depth 1 held RSA parameters without a small
\* root: the RSA attack gave up there without asking FactorDB.
C4_Witness ==
    /\ pc = "done"
    /\ ~online
    /\ \E i \in 1..Len(log) : log[i] = [ev |-> "RSAFail", depth |-> 1]
    /\ \A i \in 1..Len(log) : log[i].ev \notin OracleCalls

-----------------------------------------------------------------------------
(* A call of SolveVigenere on a ciphertext its caller made, as               *)
(* TestVigenereSolver does: arg is the plaintext and key the place of the    *)
(* caller's key in the dictionary, or 0 when arg is handed over as it is.    *)

\* One iteration of the encryption loop of TestVigenereSolver
EncryptStep(s, vkey, st) ==
    LET i == st.pos
        w == RuneLen(s, i)
        r == IF w = 1 THEN s[i] ELSE (s[i] - 192) * 64 + (s[i + 1] - 128)
        shift == vkey[(st.keyIndex % Len(vkey)) + 1] - 65
    IN  IF w = 0
        THEN [pos |-> i + 1, out |-> st.out \o RuneError, keyIndex |-> st.keyIndex]
        ELSE IF w > 2 \/ ~IsLetterRune(r)
        THEN [pos |-> i + w, out |-> st.out \o SubSeq(s, i, i + w - 1),
              keyIndex |-> st.keyIndex]
        ELSE IF IsUpperRune(r)
        THEN [pos |-> i + w, out |-> Append(st.out, 65 + ((r - 65 + shift) % 26)),
              keyIndex |-> st.keyIndex + 1]
        ELSE [pos |-> i + w, out |-> Append(st.out, 97 + ((r - 97 + shift) % 26)),
              keyIndex |-> st.keyIndex + 1]

RECURSIVE EncryptRun(_, _, _, _)
EncryptRun(s, vkey, n, st) ==
    IF st.pos > Len(s) \/ n = 0 THEN st
    ELSE IF n = 1 THEN EncryptStep(s, vkey, st)
    ELSE LET left == EncryptRun(s, vkey, n \div 2, st)
         IN  IF left.pos > Len(s) THEN left
             ELSE EncryptRun(s, vkey, n - (n \div 2), left)

\* ct of TestVigenereSolver, for any plaintext and key
VigenereEncrypt(pt, vkey) ==
    EncryptRun(pt, vkey, Len(pt), [pos |-> 1, out |-> <<>>, keyIndex |-> 0]).out

\* Texts before a marker are at most this long.
MaxVigPrefix == 4

\* Texts after a marker are at most this long.
MaxVigTail == 2

\* U J K { : "UJK{" under the key PICO is "HTB{" under the key CYLAB
VigPrefixAlphabet == {85, 74, 75, 123}

\* t }, the two bytes of U+00E9, and 0xFF, which no UTF-8 encoding holds
VigTailAlphabet == {116, 125, 195, 169, 255}

VigTest == S(<<"t", "e", "s", "t", "}">>)

\* Plaintexts with a flag marker
VigPlaintexts ==
    {p \o m \o VigTest : p \in StringsUpTo(VigPrefixAlphabet, MaxVigPrefix), m \in Markers}
        \cup {m \o t : m \in Markers, t \in StringsUpTo(VigTailAlphabet, MaxVigTail)}

\* Inputs that are no ciphertext of the caller
VigRawInputs ==
    StringsUpTo(VigTailAlphabet, MaxVigTail)
        \cup { S(<<"W", "B", "D", "{", "k", "}">>),
               S(<<"h", "e", "l", "l", "o">>) }

VigInit ==
    /\ OrchIdle
    /\ fn = ""
    /\ res = <<>>
    /\ \/ /\ arg \in VigPlaintexts
          /\ key \in 1..Len(VigenereKeys)
       \/ /\ arg \in VigRawInputs
          /\ key = 0

\* What the caller hands to SolveVigenere
VigCiphertext ==
    IF key = 0 THEN arg ELSE VigenereEncrypt(arg, VigenereKeys[key])

CallSolveVigenere ==
    /\ fn = ""
    /\ fn' = "SolveVigenere"
    /\ res' = SolveVigenere(VigCiphertext)
    /\ UNCHANGED <<arg, key>>
    /\ UNCHANGED ovars

VigNext == CallSolveVigenere

VigSpec == VigInit /\ [][VigNext]_vars

-----------------------------------------------------------------------------
(* Properties of the Vigenere solver *)

\* The places in the dictionary of the keys that decrypt ct to a text with a
\* flag marker
VigHits(ct) ==
    {k \in 1..Len(VigenereKeys) : HasFlag(vigenereDecrypt(ct, VigenereKeys[k]))}

\* Valid UTF-8 whose letters are all ASCII letters
PlainAsciiLetters(s) == \A i \in 1..Len(s) : s[i] < 128

-----------------------------------------------------------------------------
(* A call of ParseRSA, as TestParseRSA does: arg is the input text, and key  *)
(* tells how the caller wrote it: the field whose value it chose, the text   *)
(* of that value, and whether the other two fields are left out.             *)

\* Values have at most this many digits (after "0x", for a hex literal).
MaxDigits == 3

DecimalDigits == {48, 49, 55, 57}

HexDigits == {48, 49, 97, 70}

ZeroX == S(<<"0", "x">>)

\* 12345, 3 and 0x1a of TestParseRSA, bare decimal digit strings and
\* 0x-prefixed hex literals
RSAValueTexts ==
    { S(<<"1", "2", "3", "4", "5">>), S(<<"3">>), S(<<"0", "x", "1", "a">>) }
        \cup (StringsUpTo(DecimalDigits, MaxDigits) \ {<<>>})
        \cup {ZeroX \o h : h \in StringsUpTo(HexDigits, MaxDigits) \ {<<>>}}

\* The ways to write the name of a field
FieldNames ==
    [ N |-> {S(<<"n">>), S(<<"N">>), Modulus},
      E |-> {S(<<"e">>), S(<<"E">>), Exponent},
      C |-> {S(<<"c">>), S(<<"C">>), Ciphertext} ]

\* ":" and "=", bare and with the spaces of "N: 12345" and "C = 0x1a"
Separators == { S(<<":">>), S(<<"=">>), S(<<":", " ">>), S(<<" ", "=", " ">>) }

\* The lines of the input of TestParseRSA
TestLines ==
    [ N |-> S(<<"N", ":", " ", "1", "2", "3", "4", "5">>),
      E |-> S(<<"e", ":", " ", "3">>),
      C |-> S(<<"C", " ", "=", " ", "0", "x", "1", "a">>) ]

\* The input of TestParseRSA with the line of one field rewritten, or that
\* line alone
RSAInput(field, line, alone) ==
    IF alone THEN line
    ELSE (IF field = "N" THEN line ELSE TestLines.N) \o <<10>>
         \o (IF field = "E" THEN line ELSE TestLines.E) \o <<10>>
         \o (IF field = "C" THEN line ELSE TestLines.C)

ParseInit ==
    /\ OrchIdle
    /\ fn = ""
    /\ res = <<>>
    /\ \E field \in {"N", "E", "C"}, text \in RSAValueTexts, alone \in BOOLEAN :
         \E name \in FieldNames[field], sep \in Separators :
           /\ key = [field |-> field, text |-> text, alone |-> alone]
           /\ arg = RSAInput(field, name \o sep \o text, alone)

CallParseRSA ==
    /\ fn = ""
    /\ fn' = "ParseRSA"
    /\ res' = ParseRSA(arg)
    /\ UNCHANGED <<arg, key>>
    /\ UNCHANGED ovars

ParseNext == CallParseRSA

ParseSpec == ParseInit /\ [][ParseNext]_vars

-----------------------------------------------------------------------------
(* Properties of the RSA parameter parser *)

\* The integer a value text stands for: base 16 after "0x", base 10 otherwise
LiteralValue(text) ==
    IF Len(text) > 2 /\ SubSeq(text, 1, 2) = ZeroX
    THEN NumberFrom(text, 16, 3, 0)
    ELSE NumberFrom(text, 10, 1, 0)

\* What TestParseRSA expects of the fields it wrote
TestValues == [N |-> Some(12345), E |-> Some(3), C |-> Some(26)]

\* C12: ParseRSA returns for each field the integer of its literal, read in
\* base 16 when it is 0x-prefixed and in base 10 when it is a string of
\* decimal digits, whatever the digits; a field that the input does not hold
\* is absent.
C12_ParsesHexAndDecimal ==
    fn = "ParseRSA" =>
        \A f \in {"N", "E", "C"} :
            res[f] = IF f = key.field THEN LiteralValue(key.text)
                     ELSE IF key.alone THEN Nil
                     ELSE TestValues[f]

-----------------------------------------------------------------------------
(* A call of SolveRSA, as TestSmallExponentAttack does: arg is the           *)
(* parameters, key the online flag and the answer the FactorDB API has.      *)

\* Ciphertexts of the offline calls go up to this number.
MaxCipher == 32

Params(n, ev, c) == [N |-> Some(n), E |-> Some(ev), C |-> Some(c)]

\* Calls with online false: N = 100000, E = 3, C = 74088 of the test, and
\* exponents at both sides of the limit
OfflineParams ==
    { Params(n, ev, c) :
        n \in {15, 100000},
        ev \in {0, 1, 2, 3, 5, SmallExponentLimit - 1, SmallExponentLimit},
        c \in (0..MaxCipher) \cup {74088} }
        \cup { [N |-> Nil, E |-> Some(3), C |-> Some(8)],
               [N |-> Some(15), E |-> Nil, C |-> Some(8)],
               [N |-> Some(15), E |-> Some(3), C |-> Nil] }

\* Calls with online true: 15 = 3 * 5, 49 = 7^2, 3233 = 53 * 61
OnlineParams ==
    { Params(n, ev, c) : n \in {15, 49, 3233}, ev \in {3, 5, 17}, c \in {2, 8, 2790} }

\* The JSON values of a factor entry
FactorJSON == {Str(3), Str(5), Str(53), Str(61), Num(7), Other}

\* A factor entry: a list of none, one or two JSON values
FactorEntries ==
    {<<>>} \cup {<<v>> : v \in FactorJSON}
        \cup {<<v, pow>> : v \in FactorJSON, pow \in {Num(1), Num(2), Other}}

\* Factor lists of none, one, two and three entries
FactorLists ==
    {<<>>} \cup {<<a>> : a \in FactorEntries}
        \cup {<<a, b>> : a \in FactorEntries, b \in FactorEntries}
        \cup {<<a, a, a>> : a \in FactorEntries}

\* What the FactorDB API may answer: nothing (timeout, transport error,
\* unparsable body), or a status with a factor list
OracleAnswers ==
    {NoResponse}
        \cup {Response("C", f) : f \in {<<>>, << <<Str(3), Num(1)>>, <<Str(5), Num(1)>> >>}}
        \cup {Response(status, f) : status \in {"FF", "CF"}, f \in FactorLists}

RsaInit ==
    /\ OrchIdle
    /\ fn = ""
    /\ res = <<>>
    /\ \/ /\ arg \in OfflineParams
          /\ key = [online |-> FALSE, resp |-> NoResponse]
       \/ /\ arg \in OnlineParams
          /\ \E resp \in OracleAnswers : key = [online |-> TRUE, resp |-> resp]

\* A call that panics does not return.
CallSolveRSA ==
    /\ fn = ""
    /\ LET r == SolveRSA(arg, key.online, key.resp)
       IN  /\ fn' = IF r.panicked THEN "panic" ELSE "SolveRSA"
           /\ res' = r
    /\ UNCHANGED <<arg, key>>
    /\ UNCHANGED ovars

RsaNext == CallSolveRSA

RsaSpec == RsaInit /\ [][RsaNext]_vars

-----------------------------------------------------------------------------
(* Properties of the RSA solver *)

AllPresent(params) == params.N.ok /\ params.E.ok /\ params.C.ok

\* The non-negative integers m with m^ev = c
ExactRoots(c, ev) ==
    {m \in 0..c : (ev < 2 \/ m < 2 \/ m <= c \div m) /\ PowCap(m, ev, c) = c}

C16_EveryAnswerHandled ==
    fn # "" =>
        /\ fn = "SolveRSA"
        /\ key.online =>
             LET f == queryFactorDB(key.resp)
             IN  /\ ~f.panicked
                 /\ f.found => (f.p > 0 /\ f.q > 0)

RECURSIVE Gcd(_, _)
Gcd(a, b) == IF b = 0 THEN a ELSE Gcd(b, a % b)

\* The small-exponent attack has a root to find
SmallExponentHit(params) ==
    params.E.val < 100000 /\ ExactRoots(params.C.val, params.E.val) # {}

\* C17: with online true, SolveRSA queries FactorDB exactly when the
\* small-exponent attack did not succeed; when the query returns factors p
\* and q the result is a success exactly when gcd(E, (p-1)(q-1)) = 1, with
\* the bytes of C^d mod N for the inverse d of E modulo (p-1)(q-1) as the
\* decoded message; when the query returns not-found the result is a failure.
C17_FactorsGiveInverseOrFailure ==
    (fn # "" /\ key.online /\ AllPresent(arg)) =>
        /\ res.queried <=> ~SmallExponentHit(arg)
        /\ SmallExponentHit(arg) => res.Success
        /\ (res.queried /\ fn = "SolveRSA") =>
             LET f   == queryFactorDB(key.resp)
                 phi == (f.p - 1) * (f.q - 1)
             IN  IF f.found
                 THEN /\ res.Success <=> Gcd(arg.E.val, phi) = 1
                      /\ res.Success =>
                           \E d \in 0..(phi - 1) :
                              /\ (arg.E.val * d) % phi = 1 % phi
                              /\ res.DecodedData
                                   = bigIntToString(ModExp(arg.C.val, d, arg.N.val))
                 ELSE ~res.Success

\* N = 3233 with the factors 61 and 53, E = 17, C = 2790: d = 2753 and the
\* message is "A"
C17_Witness ==
    /\ fn = "SolveRSA"
    /\ key.online
    /\ arg = Params(3233, 17, 2790)
    /\ res.queried
    /\ res.Success
    /\ res.DecodedData = <<65>>

-----------------------------------------------------------------------------
(* Properties of the identification of a layer *)

\* Right after the identification of a layer: data is the buffer that was
\* identified and ident its label
Identified == pc \in {"rsa", "local"}

MagicMatches(bytes) ==
    Matching([name \in DOMAIN MagicBytes |-> HasPrefix(bytes, MagicBytes[name])])

\* C14: the label is a file-signature name when the buffer starts with a
\* magic-byte signature; otherwise "RSA Challenge Data" when N, E and C all
\* parse; otherwise a hash name when a hash pattern matches; otherwise an
\* encoding name when an encoding pattern matches; otherwise "Unknown".
C14_LabelPrecedence ==
    Identified =>
        LET files  == MagicMatches(data)
            hashes == Matching(HashPatterns(data))
            encs   == Matching(EncodingChecks(data))
        IN  IF files # {} THEN ident \in {Type("File", name) : name \in files}
            ELSE IF IsRSA(ParseRSA(data)) THEN ident = RSAChallengeData
            ELSE IF hashes # {} THEN ident \in {Type("Hash", name) : name \in hashes}
            ELSE IF encs # {} THEN ident \in {Type("Encoded Text", name) : name \in encs}
            ELSE ident = Unknown

\* The names of config.go in the order they are written
HashOrder ==
    <<"MD5", "SHA1", "SHA256", "SHA512", "RIPEMD-160", "NTLM", "Bcrypt", "Argon2">>
EncodingOrder == <<"Base64", "Base32", "Base58", "Hex", "URL">>

\* The first name of the order that is among the names
FirstOf(order, names) ==
    order[CHOOSE i \in 1..Len(order) :
            /\ order[i] \in names
            /\ \A j \in 1..(i - 1) : order[j] \notin names]

\* C15: the label of a buffer is the first configured name that matches, in
\* the order of the knowledge base, so the same buffer always has the same
\* label.
C15_FirstConfiguredName ==
    (Identified /\ ~IsRSA(ParseRSA(data)) /\ MagicMatches(data) = {}) =>
        LET hashes == Matching(HashPatterns(data))
            encs   == Matching(EncodingChecks(data))
        IN  IF hashes # {} THEN ident = Type("Hash", FirstOf(HashOrder, hashes))
            ELSE IF encs # {} THEN ident = Type("Encoded Text", FirstOf(EncodingOrder, encs))
            ELSE ident = Unknown

-----------------------------------------------------------------------------
(* Properties of the XOR success the orchestrator reports *)

\* The layer has just reported "Success! Algorithm: Single Byte XOR"
XorSuccessReported ==
    /\ pc = "return"
    /\ log # <<>>
    /\ log[Len(log)] = [ev |-> "XORSuccess", depth |-> depth]

\* C18: whenever a layer reports a Single Byte XOR success, the decoded text
\* it prints contains "picoCTF{" or "HTB{".
C18_XorSuccessHoldsFlag ==
    XorSuccessReported => HasFlag(SolveSingleByteXOR(data).text)
=============================================================================
